---------------------------- MODULE Spec2Model ----------------------------
(***************************************************************************)
(* Confluence detection and notification pipeline of OCM_Hub:              *)
(*   src/src/services/pattern_detector.py  (token ledger, detectors)       *)
(*   src/src/services/alpha_tracker.py     (rate limiter, orchestrator,    *)
(*                                          dispatcher)                    *)
(*   src/src/services/cache_service.py     (plain-key get/set)             *)
(*                                                                         *)
(* Units.  Time is an integer number of tenths of a second (1 s = 10), so  *)
(* that the limiter's 1.1 s sleep is exact.  Money is whole dollars; the   *)
(* confluence threshold is kept in thousandths of a dollar so that         *)
(* cap * 0.01, cap * 0.005 and cap * 0.003 are exact integers.             *)
(***************************************************************************)
EXTENDS Integers, Sequences, FiniteSets, TLC

VARIABLES
    now,            \* datetime.now(), in tenths of a second
    mcapIn,         \* threshold study: the pair of market caps given
    thrOut,         \* threshold study: the pair of thresholds computed
    redisList,      \* Redis LIST "token_transactions:<token>:list", head = last LPUSH
    redisPlain,     \* Redis string key "token_transactions:<token>" (JSON array)
    listExpire,     \* expiry time of the LIST key, NoTTL when none
    plainExpire,    \* expiry time of the plain key, NoTTL when none
    detected,       \* what the last pipeline run, pattern check or ledger read computed
    sent,           \* notifications handed to send_to_telegram, oldest first
    second_window,  \* TelegramRateLimiter.second_window (deque, oldest on the left)
    minute_window,  \* TelegramRateLimiter.minute_window
    sleepers,       \* callers of wait_if_needed suspended in asyncio.sleep
    released,       \* times at which wait_if_needed returned, in order
    calls,          \* number of wait_if_needed / send_to_telegram calls made
    ticks,          \* number of clock steps taken
    task,           \* the _process_single_transaction tasks of the deliveries
    faults,         \* number of task steps in which Redis raised so far
    prior,          \* the ledger content the tasks started from (kept for the claims)
    disp,           \* the running send_to_telegram: position, recipient, attempt
    dispatchLog,    \* send_message calls and backoff sleeps of the dispatcher
    webhook,        \* handle_webhook: "idle", "received" or "parsed"
    payload,        \* the token transfers of the delivery, in payload order
    parsed,         \* what parse_helius_webhook returned
    cursor,         \* number of parsed events already processed
    costBasis,      \* value of the key "cost_basis:<wallet>:<token>"
    recorded,       \* fills whose record_transaction call has returned
    averaged,       \* what the last get_average_cost_basis returned
    response,       \* HTTP status the webhook endpoint answered, 0 while none
    trader_profiles, \* AlphaTracker.trader_profiles: wallet -> category
    watched,        \* AlphaTracker.alpha_addresses, as a set
    refresh,        \* update_alpha_addresses: where it stands and what it fetched
    seen,           \* the roster reads of the pipeline runs, in order
    pattern_detector, \* AlphaTracker.pattern_detector: none yet, or the roster it was built with
    message,        \* split study: the message, a sequence of characters
    chunks          \* split study: what split_message returned, <<>> before

thresholdVars == <<mcapIn, thrOut>>
ledgerVars    == <<redisList, redisPlain, listExpire, plainExpire>>
detectVars    == <<detected>>
limiterVars   == <<second_window, minute_window, sleepers, released, calls, ticks>>
dispatchVars  == <<disp, dispatchLog>>
taskVars      == <<task, faults, prior>>
parseVars     == <<webhook, payload, parsed, cursor, response>>
costVars      == <<costBasis, recorded, averaged>>
rosterVars    == <<trader_profiles, watched, refresh, seen, pattern_detector>>
splitVars     == <<message, chunks>>
vars == <<now, thresholdVars, ledgerVars, detectVars, sent, limiterVars, dispatchVars,
          taskVars, parseVars, costVars, rosterVars, splitVars>>

-----------------------------------------------------------------------------
(* Time constants *)
Second == 10
Minute == 600
Hour   == 36000
NoTTL  == 0 - 1

(* Tokens: two ordinary tokens and the three excluded ones *)
USDT == "USDT"
USDC == "USDC"
WSOL == "WSOL"
Tokens == {"tokA", "tokB", USDT, USDC, WSOL}

(* Wallets and the roster (trader_profiles).  w4 is watched but has no     *)
(* profile, so its category defaults to 'Unknown'.                         *)
Wallets == {"w1", "w2", "w3", "w4"}
Roster == [w \in {"w1", "w2", "w3"} |->
             CASE w = "w1" -> "Alpha Trader"
               [] w = "w2" -> "Volume Leader"
               [] w = "w3" -> "Insider"]

\* self.trader_profiles.get(wallet, {}).get('category', 'Unknown')
CategoryOf(profiles, wallet) ==
    IF wallet \in DOMAIN profiles THEN profiles[wallet] ELSE "Unknown"

alpha_trader_types == {"Insider", "Alpha Trader", "Volume Leader", "Consistent Performer"}

\* AlphaTracker.insider_cluster: wallets whose every swap is notified
insider_cluster == {"w3"}

\* excluded_tokens of _process_single_transaction
excluded_tokens == {USDT, USDC, WSOL}

\* the $100 floor of _process_single_transaction
MinUsdValue == 100

-----------------------------------------------------------------------------
(* Small arithmetic helpers *)
Max(a, b) == IF a >= b THEN a ELSE b
Min(a, b) == IF a <= b THEN a ELSE b
Abs(a) == IF a >= 0 THEN a ELSE 0 - a

RECURSIVE SumAmountRange(_, _, _)
\* the amounts of txs[lo..hi] added up (by halves, to keep the recursion
\* shallow on a 200-entry ledger)
SumAmountRange(txs, lo, hi) ==
    IF lo > hi THEN 0
    ELSE IF lo = hi THEN txs[lo].amount_usd
    ELSE LET mid == (lo + hi) \div 2
         IN  SumAmountRange(txs, lo, mid) + SumAmountRange(txs, mid + 1, hi)

\* sum(tx['amount_usd'] for tx in txs)
SumAmount(txs) == SumAmountRange(txs, 1, Len(txs))

Range(s) == {s[i] : i \in 1..Len(s)}

-----------------------------------------------------------------------------
(* Net-flow threshold, in thousandths of a dollar *)

\* a wrong first tier edge (2,000,000 in place of 1,000,000)
MinFlowThresholdWrongEdge(market_cap) ==
    IF market_cap > 0
    THEN IF market_cap < 2000000
         THEN Max(2000 * 1000, market_cap * 10)
         ELSE IF market_cap < 10000000
              THEN Max(5000 * 1000, market_cap * 5)
              ELSE Max(10000 * 1000, market_cap * 3)
    ELSE 5000 * 1000

\* min_flow_threshold of _check_alpha_confluence
MinFlowThreshold(market_cap) ==
    IF market_cap > 0
    THEN IF market_cap < 1000000
         THEN Max(2000 * 1000, market_cap * 10)
         ELSE IF market_cap < 10000000
              THEN Max(5000 * 1000, market_cap * 5)
              ELSE Max(10000 * 1000, market_cap * 3)
    ELSE 5000 * 1000

-----------------------------------------------------------------------------
(* Ledger entries and the Redis primitives used on them.                   *)
(* An entry is the transaction_data dict of _store_transaction; token_symbol *)
(* is display text and is left out.  ev is the arrival number of the swap  *)
(* the entry was made from: the code stores no such field, it is kept here *)
(* only to tell entries apart when stating ordering and loss properties.   *)

LedgerCap == 200

\* redis.lpush(list_key, json.dumps(transaction_data))
LPush(list, entry) == <<entry>> \o list

\* redis.ltrim(list_key, 0, 199)
LTrim(list) == SubSeq(list, 1, Min(Len(list), LedgerCap))

\* transaction_data built by add_transaction / _store_transaction
TransactionData(swap, profiles, t) ==
    [ timestamp   |-> t,
      wallet      |-> swap.wallet_address,
      action      |-> IF swap.is_buy THEN "buy" ELSE "sell",
      amount_usd  |-> swap.usd_value,
      trader_type |-> CategoryOf(profiles, swap.wallet_address),
      market_cap  |-> swap.current_market_cap,
      ev          |-> swap.ev ]

\* the time filter of _get_recent_transactions and of the detectors:
\* datetime.fromisoformat(tx['timestamp']) > now - timedelta(hours=hours)
FilterSince(transactions, t, window) ==
    SelectSeq(transactions, LAMBDA tx : tx.timestamp > t - window)

\* CacheService.get: the decoded value, None (here the empty list, as every
\* caller writes "or []") when the key is missing or Redis raises
CacheGet(plain, getFails) == IF getFails THEN <<>> ELSE plain

\* _get_recent_transactions: the LIST when LRANGE succeeds (an empty LIST
\* gives []), the plain key when LRANGE raises; then the time filter
GetRecentTransactions(list, plain, lrangeFails, getFails, hours, t) ==
    LET transactions == IF lrangeFails THEN CacheGet(plain, getFails) ELSE list
    IN  FilterSince(transactions, t, hours * Hour)

\* the fallback of _store_transaction: read the plain key, append, keep the
\* last 200; the value handed to CacheService.set
FallbackAppend(plain, entry, getFails) ==
    LET transactions == Append(CacheGet(plain, getFails), entry)
    IN  IF Len(transactions) > LedgerCap
        THEN SubSeq(transactions, Len(transactions) - LedgerCap + 1, Len(transactions))
        ELSE transactions

-----------------------------------------------------------------------------
(* The three detectors.  A finding is the returned string, kept as its     *)
(* kind and the numbers printed in it; None is NoFinding.                  *)

NoFinding == [kind |-> "none", wallets |-> 0, usd |-> 0]

\* a category test that lets every wallet through
IsAlphaTxAnyCategory(tx, act) == tx.action = act

\* tx['trader_type'] in alpha_trader_types and tx['action'] == act
IsAlphaTx(tx, act) == tx.trader_type \in alpha_trader_types /\ tx.action = act

\* the 2-wallet floor of earlier revisions
EnoughWalletsTwo(wallets) == Cardinality(wallets) >= 2

\* len(alpha_buyers) >= 3, len(alpha_sellers) >= 3
EnoughWallets(wallets) == Cardinality(wallets) >= 3

\* _check_alpha_confluence: every local it computes, and the finding returned
ConfluenceStats(transactions, t) ==
    LET recent_txs == FilterSince(transactions, t, Hour)
        alpha_buyers  == {tx.wallet : tx \in {x \in Range(recent_txs) : IsAlphaTx(x, "buy")}}
        alpha_sellers == {tx.wallet : tx \in {x \in Range(recent_txs) : IsAlphaTx(x, "sell")}}
        buy_volume  == SumAmount(SelectSeq(recent_txs, LAMBDA tx : IsAlphaTx(tx, "buy")))
        sell_volume == SumAmount(SelectSeq(recent_txs, LAMBDA tx : IsAlphaTx(tx, "sell")))
        net_flow == buy_volume - sell_volume
        market_cap == IF recent_txs # <<>> THEN recent_txs[1].market_cap ELSE 0
        min_flow_threshold == MinFlowThreshold(market_cap)
        finding ==
            IF Abs(net_flow) * 1000 >= min_flow_threshold
            THEN IF net_flow > 0 /\ EnoughWallets(alpha_buyers)
                 THEN [kind |-> "confluence_buy",
                       wallets |-> Cardinality(alpha_buyers), usd |-> net_flow]
                 ELSE IF net_flow < 0 /\ EnoughWallets(alpha_sellers)
                      THEN [kind |-> "confluence_sell",
                            wallets |-> Cardinality(alpha_sellers), usd |-> Abs(net_flow)]
                      ELSE NoFinding
            ELSE NoFinding
    IN  [ alpha_buyers |-> alpha_buyers, alpha_sellers |-> alpha_sellers,
          buy_volume |-> buy_volume, sell_volume |-> sell_volume,
          net_flow |-> net_flow, market_cap |-> market_cap,
          min_flow_threshold |-> min_flow_threshold, finding |-> finding ]

CheckAlphaConfluence(transactions, t) == ConfluenceStats(transactions, t).finding

\* _check_sequence_pattern.  recent_txs.sort(key=timestamp) is a stable
\* ascending sort, so the first tracked entry of the sorted list is the
\* tracked entry with the least timestamp and, among equals, the least
\* position in the view; the followers are used only as sets, which the
\* sort does not change.
CheckSequencePattern(transactions, t) ==
    LET recent_txs == FilterSince(transactions, t, 2 * Hour)
        alphaIdx == {i \in 1..Len(recent_txs) :
                        recent_txs[i].trader_type \in alpha_trader_types}
    IN  IF alphaIdx = {} THEN NoFinding
        ELSE LET first == CHOOSE i \in alphaIdx : \A j \in alphaIdx :
                              \/ recent_txs[i].timestamp < recent_txs[j].timestamp
                              \/ /\ recent_txs[i].timestamp = recent_txs[j].timestamp
                                 /\ i <= j
                 alpha_action_time == recent_txs[first].timestamp
                 alpha_action_type == recent_txs[first].action
                 subsequent_actions ==
                     SelectSeq(recent_txs, LAMBDA tx :
                         /\ tx.timestamp > alpha_action_time + 5 * Minute
                         /\ tx.trader_type \notin {"Alpha Traders", "Alpha"}
                         /\ tx.action = alpha_action_type)
                 unique_followers == {tx.wallet : tx \in Range(subsequent_actions)}
             IN  IF Cardinality(unique_followers) >= 2
                 THEN [kind |-> "sequence_" \o alpha_action_type,
                       wallets |-> Cardinality(unique_followers), usd |-> 0]
                 ELSE NoFinding

\* _check_diversity_pattern
CheckDiversityPattern(transactions, t) ==
    LET recent_txs == FilterSince(transactions, t, Hour)
        buyers  == SelectSeq(recent_txs, LAMBDA tx : tx.action = "buy")
        sellers == SelectSeq(recent_txs, LAMBDA tx : tx.action = "sell")
        buyer_types  == {tx.trader_type : tx \in Range(buyers)}
        seller_types == {tx.trader_type : tx \in Range(sellers)}
    IN  IF Cardinality(buyer_types) >= 3
        THEN [kind |-> "diversity_buy",
              wallets |-> Cardinality({tx.wallet : tx \in Range(buyers)}),
              usd |-> SumAmount(buyers)]
        ELSE IF Cardinality(seller_types) >= 3
             THEN [kind |-> "diversity_sell",
                   wallets |-> Cardinality({tx.wallet : tx \in Range(sellers)}),
                   usd |-> SumAmount(sellers)]
             ELSE NoFinding

\* _check_patterns, given the view its ledger read returned
CheckPatterns(token_txs, t) ==
    IF token_txs = <<>> THEN <<>>
    ELSE SelectSeq(<< CheckAlphaConfluence(token_txs, t),
                      CheckSequencePattern(token_txs, t),
                      CheckDiversityPattern(token_txs, t) >>,
                   LAMBDA f : f # NoFinding)

-----------------------------------------------------------------------------
(* Values the variables of a study hold while another study runs *)

T0 == 3 * Hour

NoLedger == [tok \in Tokens |-> <<>>]
NoExpiry == [tok \in Tokens |-> NoTTL]

IdleThreshold == mcapIn = <<0, 0>> /\ thrOut = <<>>
IdleLedger ==
    /\ redisList = NoLedger /\ redisPlain = NoLedger
    /\ listExpire = NoExpiry /\ plainExpire = NoExpiry
IdleDetect == detected = [op |-> "none"] /\ sent = <<>>
IdleLimiter ==
    /\ second_window = <<>> /\ minute_window = <<>>
    /\ sleepers = <<>> /\ released = <<>> /\ calls = 0 /\ ticks = 0
IdleDispatch == disp = [pc |-> "idle"] /\ dispatchLog = <<>>
IdleTasks == task = <<>> /\ faults = 0 /\ prior = <<>>
IdleParse ==
    /\ webhook = "idle" /\ payload = <<>> /\ parsed = <<>> /\ cursor = 0
    /\ response = 0
IdleCost == costBasis = <<>> /\ recorded = <<>> /\ averaged = [op |-> "none"]
IdleRoster ==
    /\ trader_profiles = <<>> /\ watched = {}
    /\ refresh = [pc |-> "idle"] /\ seen = <<>>
    /\ pattern_detector = [made |-> FALSE]
IdleSplit == message = <<>> /\ chunks = <<>>

-----------------------------------------------------------------------------
(* Threshold study: _check_alpha_confluence's threshold as a function of   *)
(* the market cap, for a pair of caps                                      *)

CapPool == { 0, 1, 150000, 199999, 200000, 200001, 999999, 1000000, 1000001,
             1999999, 2000000, 3333333, 9999999, 10000000, 10000001, 50000000 }

InitThreshold ==
    /\ now = T0
    /\ mcapIn \in CapPool \X CapPool
    /\ thrOut = <<>>
    /\ IdleLedger /\ IdleDetect /\ IdleLimiter /\ IdleDispatch /\ IdleTasks /\ IdleParse /\ IdleCost /\ IdleRoster /\ IdleSplit

ComputeThreshold ==
    /\ thrOut = <<>>
    /\ thrOut' = <<MinFlowThreshold(mcapIn[1]), MinFlowThreshold(mcapIn[2])>>
    /\ UNCHANGED <<now, mcapIn, ledgerVars, detectVars, sent, limiterVars, dispatchVars,
                   taskVars,
                   parseVars, costVars, rosterVars, splitVars>>

NextThreshold == ComputeThreshold

SpecThreshold == InitThreshold /\ [][NextThreshold]_vars

\* the threshold the specification's tiers give: the middle tier runs from
\* 1,000,000 to 10,000,000 inclusive, 'above $10M' starts after it
ThresholdByTiers(cap) ==
    IF cap = 0 THEN 5000 * 1000
    ELSE IF cap < 1000000 THEN Max(2000 * 1000, cap * 10)
    ELSE IF cap <= 10000000 THEN Max(5000 * 1000, cap * 5)
    ELSE Max(10000 * 1000, cap * 3)

\* C7: the threshold computed for a cap is the one the tiers of the
\* specification give, a cap of exactly 10,000,000 still being in the
\* middle tier (it is not: the code gives it the 0.3% tier)
C7_ThresholdFollowsTiers ==
    thrOut # <<>> => thrOut[1] = ThresholdByTiers(mcapIn[1])

\* the tier the code puts a known cap in
TierOf(cap) == IF cap < 1000000 THEN 1 ELSE IF cap < 10000000 THEN 2 ELSE 3

\* C8 as stated: for known caps c1 <= c2 the thresholds are ordered alike
C8_MonotoneEverywhere ==
    (thrOut # <<>> /\ 0 < mcapIn[1] /\ mcapIn[1] <= mcapIn[2])
        => thrOut[1] <= thrOut[2]

\* C8 amended: for known caps c1 <= c2 of the same tier the thresholds are
\* ordered alike (across a tier edge the threshold may drop)
C8_MonotoneWithinTier ==
    (thrOut # <<>> /\ 0 < mcapIn[1] /\ mcapIn[1] <= mcapIn[2]
        /\ TierOf(mcapIn[1]) = TierOf(mcapIn[2]))
        => thrOut[1] <= thrOut[2]

C8_Witness ==
    /\ thrOut # <<>> /\ 0 < mcapIn[1] /\ mcapIn[1] < mcapIn[2]
    /\ TierOf(mcapIn[1]) = TierOf(mcapIn[2])
    /\ thrOut[1] < thrOut[2]

-----------------------------------------------------------------------------
(* Detector study: a ledger of token tokA as sequential appends leave it,  *)
(* one more sequential add_transaction, and the pattern check on it        *)

MaxView == 3

SwapAmounts == {2000, 50000}
SwapCaps    == {0, 2000000}

FreshTime == T0 - 10 * Minute
StaleTime == T0 - 70 * Minute

\* a ledger of n entries, newest first: k entries appended in the last hour
\* in front of n - k entries that have aged out of it, all of them swaps of
\* usd dollars at market cap cap (the entry an add_transaction puts in front
\* has its own amount and cap)
DetectLedger(n, k, f, usd, cap) ==
    [i \in 1..n |->
        [ timestamp   |-> IF i <= k THEN FreshTime ELSE StaleTime,
          wallet      |-> f[i][1],
          action      |-> f[i][2],
          amount_usd  |-> usd,
          trader_type |-> CategoryOf(Roster, f[i][1]),
          market_cap  |-> cap,
          ev          |-> 0 ] ]

LaterTime == T0 - 2 * Minute
OldTime   == T0 - 125 * Minute

\* the append times of an aged ledger, newest first
AgeLevels == << LaterTime, FreshTime, StaleTime, OldTime >>

\* the wallets that acted in an aged ledger
AgedWallets == {"w1", "w2"}

\* a ledger of n buys of $2,000, newest first, whose appends came at most
\* an hour apart (each refreshed the TTL of the key before it ran out):
\* entry i was appended at AgeLevels[lvl[i]] by wallet w[i]
AgedLedger(n, lvl, w) ==
    [i \in 1..n |->
        [ timestamp   |-> AgeLevels[lvl[i]],
          wallet      |-> w[i],
          action      |-> "buy",
          amount_usd  |-> 2000,
          trader_type |-> CategoryOf(Roster, w[i]),
          market_cap  |-> 0,
          ev          |-> 0 ] ]

\* The key's TTL was set one hour after the newest append, so a non-empty
\* ledger has a fresh head.  The entries that aged out of the last hour reach
\* no detector of a run at T0; theirs are buys of w1, and the aged ledgers
\* vary the wallets of older entries.
InitDetect ==
    /\ now = T0
    /\ \/ \E n \in 0..MaxView :
          \E k \in (IF n = 0 THEN {0} ELSE 1..n) :
          \E f \in [1..n -> Wallets \X {"buy", "sell"}] :
          \E usd \in (IF n = 0 THEN {2000} ELSE SwapAmounts) :
          \E cap \in (IF n = 0 THEN {0} ELSE SwapCaps) :
             /\ \A i \in (k + 1)..n : f[i] = <<"w1", "buy">>
             /\ redisList = [NoLedger EXCEPT !["tokA"] = DetectLedger(n, k, f, usd, cap)]
             /\ listExpire = [NoExpiry EXCEPT !["tokA"] =
                                 IF n = 0 THEN NoTTL ELSE FreshTime + Hour]
       \/ \E n \in 2..MaxView :
          \E lvl \in [1..n -> 1..Len(AgeLevels)] :
          \E w \in [1..n -> AgedWallets] :
             /\ lvl[1] <= 2
             /\ \A i \in 1..(n - 1) : lvl[i + 1] \in {lvl[i], lvl[i] + 1}
             /\ redisList = [NoLedger EXCEPT !["tokA"] = AgedLedger(n, lvl, w)]
             /\ listExpire = [NoExpiry EXCEPT !["tokA"] = AgeLevels[lvl[1]] + Hour]
       \* a busy hour: the three profiled wallets on one side of tokA and
       \* two or three of them on the other, ten minutes ago
       \/ \E n \in 5..6 : \E first \in {"buy", "sell"} :
             /\ redisList = [NoLedger EXCEPT !["tokA"] =
                   [i \in 1..n |->
                      [ timestamp   |-> FreshTime,
                        wallet      |-> <<"w1", "w2", "w3">>[((i - 1) % 3) + 1],
                        action      |-> IF (i <= 3) = (first = "buy") THEN "buy" ELSE "sell",
                        amount_usd  |-> 2000,
                        trader_type |-> CategoryOf(Roster, <<"w1", "w2", "w3">>[((i - 1) % 3) + 1]),
                        market_cap  |-> 0,
                        ev          |-> 0 ] ]]
             /\ listExpire = [NoExpiry EXCEPT !["tokA"] = FreshTime + Hour]
    /\ redisPlain = NoLedger /\ plainExpire = NoExpiry
    /\ IdleThreshold /\ IdleLimiter /\ IdleDispatch /\ IdleTasks /\ IdleParse /\ IdleCost /\ IdleRoster /\ IdleSplit
    /\ detected = [op |-> "none"]
    /\ sent = <<>>

\* _check_patterns(token): a ledger read followed by the three detectors
CheckPatternsStep ==
    LET token_txs == GetRecentTransactions(redisList["tokA"], redisPlain["tokA"],
                                           FALSE, FALSE, 1, now)
    IN  /\ detected.op = "none"
        /\ detected' = [ op |-> "check",
                         view |-> token_txs,
                         stats |-> ConfluenceStats(token_txs, now),
                         patterns |-> CheckPatterns(token_txs, now) ]
        /\ UNCHANGED <<now, thresholdVars, ledgerVars, sent, limiterVars, dispatchVars,
                       taskVars,
                   parseVars, costVars, rosterVars, splitVars>>

\* the swaps a delivery can carry: ordinary swaps of tokA, swaps below the
\* floor, swaps of the excluded tokens
OrdinarySwaps ==
    { [ wallet_address |-> w, token_address |-> "tokA", is_buy |-> buy,
        usd_value |-> usd, current_market_cap |-> cap, ev |-> 1 ] :
      w \in Wallets, buy \in BOOLEAN, usd \in SwapAmounts, cap \in SwapCaps }
FilteredSwaps ==
    { [ wallet_address |-> w, token_address |-> "tokA", is_buy |-> TRUE,
        usd_value |-> 50, current_market_cap |-> 0, ev |-> 1 ] : w \in {"w1", "w3"} }
    \cup
    { [ wallet_address |-> "w1", token_address |-> tok, is_buy |-> TRUE,
        usd_value |-> 2000, current_market_cap |-> 0, ev |-> 1 ] : tok \in excluded_tokens }

\* swaps of tokA one dollar under the floor and exactly at it
FloorSwaps ==
    { [ wallet_address |-> w, token_address |-> "tokA", is_buy |-> TRUE,
        usd_value |-> usd, current_market_cap |-> 0, ev |-> 1 ] :
      w \in {"w1", "w3"}, usd \in {MinUsdValue - 1, MinUsdValue} }

\* a pipeline that notifies whatever the detectors returned
ShouldNotifyAlways(patterns) == TRUE

\* "if patterns:" of _process_single_transaction
ShouldNotify(patterns) == patterns # <<>>

\* a floor that a swap of exactly $100 does not meet
PassesFiltersAboveFloor(swap) ==
    /\ swap.usd_value > MinUsdValue
    /\ swap.token_address \notin excluded_tokens

\* the two filters at the head of _process_single_transaction
PassesFilters(swap) ==
    /\ ~ (swap.usd_value < MinUsdValue)
    /\ swap.token_address \notin excluded_tokens

\* what _process_single_transaction hands to send_to_telegram for a swap
\* that passed the filters: the insider-cluster signal first, then the
\* confluence alert when the detectors returned a finding
NotificationsFor(swap, patterns) ==
    (IF swap.wallet_address \in insider_cluster
     THEN << [ev |-> swap.ev, kind |-> "insider"] >> ELSE << >>)
    \o
    (IF ShouldNotify(patterns)
     THEN << [ev |-> swap.ev, kind |-> "confluence"] >> ELSE << >>)

\* a ledger key that is the same for every token
CacheKeyShared(token_address) == "tokA"

\* cache_key = f"token_transactions:{token_address}": the token whose two
\* keys add_transaction writes and _check_patterns reads
CacheKey(token_address) == token_address

\* _process_single_transaction(swap) run alone and with the store
\* reachable: filters, insider-cluster signal, add_transaction (LPUSH,
\* LTRIM, EXPIRE, then _check_patterns), confluence alert
ProcessSwap(swap) ==
    LET tok == CacheKey(swap.token_address)
        entry == TransactionData(swap, Roster, now)
        before == GetRecentTransactions(redisList[tok], redisPlain[tok],
                                        FALSE, FALSE, 1, now)
        list1 == LTrim(LPush(redisList[tok], entry))
        token_txs == GetRecentTransactions(list1, redisPlain[tok],
                                           FALSE, FALSE, 1, now)
        patterns == CheckPatterns(token_txs, now)
    IN  /\ IF PassesFilters(swap)
           THEN /\ redisList' = [redisList EXCEPT ![tok] = list1]
                /\ listExpire' = [listExpire EXCEPT ![tok] = now + Hour]
                /\ detected' = [ op |-> "add",
                                 swap |-> swap,
                                 entry |-> entry,
                                 before |-> ConfluenceStats(before, now),
                                 view |-> token_txs,
                                 stats |-> ConfluenceStats(token_txs, now),
                                 patterns |-> patterns ]
                /\ sent' = sent \o NotificationsFor(swap, patterns)
           ELSE /\ detected' = [ op |-> "skip", swap |-> swap, patterns |-> <<>> ]
                /\ UNCHANGED <<redisList, listExpire, sent>>
        /\ UNCHANGED <<now, thresholdVars, redisPlain, plainExpire,
                       limiterVars, dispatchVars, taskVars>>

\* one swap handed to the pipeline, the entries of the last two hours (the
\* longest detector window) kept within MaxView
ProcessSingleTransactionStep ==
    \E swap \in OrdinarySwaps \cup FilteredSwaps \cup FloorSwaps :
        /\ detected.op = "none"
        /\ PassesFilters(swap) =>
              Len(FilterSince(redisList[swap.token_address], now, 2 * Hour)) < MaxView
        /\ ProcessSwap(swap)
        /\ UNCHANGED <<parseVars, costVars, rosterVars, splitVars>>

NextDetect == CheckPatternsStep \/ ProcessSingleTransactionStep

SpecDetect == InitDetect /\ [][NextDetect]_vars

(* What the claims say about a ledger, stated on the stored entries       *)
(* themselves rather than on the detector's locals                        *)

TrackedCategories == {"Insider", "Alpha Trader", "Volume Leader", "Consistent Performer"}

\* the stored entries of tokA not older than one hour
WindowEntries ==
    {e \in Range(redisList["tokA"]) : e.timestamp >= now - Hour}

\* distinct wallets of a tracked roster category that acted in the window
TrackedActors(act) ==
    {e.wallet : e \in {x \in WindowEntries :
                          /\ CategoryOf(Roster, x.wallet) \in TrackedCategories
                          /\ x.action = act}}

Ran == detected.op \in {"check", "add"}

\* C3: a BUY confluence finding is returned only with net flow > 0,
\* |net| >= threshold and at least 3 distinct tracked-category buyers in the
\* one-hour window; a SELL finding only with net flow < 0, |net| >= threshold
\* and at least 3 distinct tracked-category sellers
C3_ConfluenceNeedsThreeWallets ==
    Ran =>
      /\ (\E i \in 1..Len(detected.patterns) :
              detected.patterns[i].kind = "confluence_buy")
           => /\ detected.stats.net_flow > 0
              /\ detected.stats.net_flow * 1000 >= detected.stats.min_flow_threshold
              /\ Cardinality(TrackedActors("buy")) >= 3
      /\ (\E i \in 1..Len(detected.patterns) :
              detected.patterns[i].kind = "confluence_sell")
           => /\ detected.stats.net_flow < 0
              /\ (0 - detected.stats.net_flow) * 1000 >= detected.stats.min_flow_threshold
              /\ Cardinality(TrackedActors("sell")) >= 3

C3_Witness ==
    /\ Ran
    /\ detected.patterns # <<>>
    /\ detected.patterns[1].kind = "confluence_buy"
    /\ Cardinality(TrackedActors("buy")) = 3
    /\ detected.stats.net_flow * 1000 = detected.stats.min_flow_threshold + 1000000

C9_UnknownDoesNotContribute ==
    (detected.op = "add" /\ detected.entry.trader_type = "Unknown") =>
      /\ detected.stats.alpha_buyers  = detected.before.alpha_buyers
      /\ detected.stats.alpha_sellers = detected.before.alpha_sellers
      /\ detected.stats.buy_volume  = detected.before.buy_volume
      /\ detected.stats.sell_volume = detected.before.sell_volume
      /\ detected.stats.net_flow    = detected.before.net_flow
      /\ Cardinality(TrackedActors("buy")) < 3
           => detected.stats.finding.kind # "confluence_buy"
      /\ Cardinality(TrackedActors("sell")) < 3
           => detected.stats.finding.kind # "confluence_sell"

C9_Witness ==
    /\ detected.op = "add"
    /\ detected.entry.trader_type = "Unknown"
    /\ detected.entry.amount_usd = 50000
    /\ detected.entry.action = "buy"
    /\ Cardinality(TrackedActors("buy")) = 2
    /\ detected.before.net_flow * 1000 >= detected.before.min_flow_threshold
    /\ detected.stats.finding = NoFinding

\* the step just taken was _process_single_transaction(swap)
Processed == detected'.op \in {"add", "skip"}

\* C13: a swap worth less than $100 appends nothing, runs no detector and
\* sends nothing; a swap of tokA worth exactly $100 is appended and checked
C13_FloorAtHundred ==
    [][ /\ (Processed /\ detected'.swap.usd_value < 100)
            => /\ detected'.op = "skip"
               /\ UNCHANGED <<ledgerVars, sent>>
        /\ (Processed /\ detected'.swap.usd_value = 100
                      /\ detected'.swap.token_address = "tokA")
            => /\ detected'.op = "add"
               /\ redisList'["tokA"] = LPush(redisList["tokA"], detected'.entry)
               /\ detected'.entry.amount_usd = 100 ]_vars

\* an insider-cluster wallet's $99 swap, met by a ledger that two tracked
\* buyers are already in: nothing stored, nothing sent
C13_Witness ==
    /\ detected.op = "skip"
    /\ detected.swap.usd_value = 99
    /\ detected.swap.wallet_address \in insider_cluster
    /\ Len(redisList["tokA"]) = 2
    /\ sent = <<>>

\* the findings of the sequence detector among the returned patterns
SequenceFound ==
    \E i \in 1..Len(detected.patterns) :
        detected.patterns[i].kind \in {"sequence_buy", "sequence_sell"}

Tracked(e) == CategoryOf(Roster, e.wallet) \in TrackedCategories

\* the wallets that follow anchor a in the view: not of a tracked category,
\* not the anchor's wallet, same action, more than 5 minutes later
UntrackedFollowers(a) ==
    { e.wallet : e \in { x \in Range(detected.view) :
                            /\ ~ Tracked(x)
                            /\ x.wallet # a.wallet
                            /\ x.action = a.action
                            /\ x.timestamp > a.timestamp + 5 * Minute } }

\* C25: a followers finding is returned only when at least 2 distinct
\* wallets of a non-tracked category did what the anchor (an earliest
\* tracked-category action of the view) did, more than 5 minutes after it.
C25_FollowersAreUntracked ==
    (Ran /\ SequenceFound) =>
        \E a \in Range(detected.view) :
            /\ Tracked(a)
            /\ \A b \in Range(detected.view) : Tracked(b) => a.timestamp <= b.timestamp
            /\ Cardinality(UntrackedFollowers(a)) >= 2

\* C26: a tracked-category action stored between 1 and 2 hours before the
\* check is part of the view the detectors (the 2-hour sequence detector
\* among them) are given.
C26_SequenceViewSpansTwoHours ==
    Ran => \A e \in Range(redisList["tokA"]) :
              (Tracked(e) /\ e.timestamp > now - 2 * Hour /\ e.timestamp <= now - Hour)
                  => e \in Range(detected.view)

\* C27: after an append the stored ledger of the token holds no entry
\* older than the retention window, taken here as the longest detector
\* window (2 hours).
C27_NoAgedEntryAfterAppend ==
    detected.op = "add" =>
        \A e \in Range(redisList["tokA"]) : now - e.timestamp <= 2 * Hour

\* the entries of the view with a known market cap
KnownCaps == { i \in 1..Len(detected.view) : detected.view[i].market_cap > 0 }

\* C30: the market cap the confluence threshold is computed from is the
\* cap of a most recent entry of the view with a known cap, and the
\* no-cap fallback is taken only when no entry of the view has one.
C30_MostRecentKnownCap ==
    (Ran /\ detected.view # <<>>) =>
        IF KnownCaps = {}
        THEN detected.stats.market_cap = 0
        ELSE \E i \in KnownCaps :
                /\ \A j \in KnownCaps :
                      detected.view[j].timestamp <= detected.view[i].timestamp
                /\ detected.stats.market_cap = detected.view[i].market_cap

\* the trader categories of the view's entries of one action
ViewTypes(act) ==
    {e.trader_type : e \in {x \in Range(detected.view) : x.action = act}}

DiversityFound(kind) ==
    \E i \in 1..Len(detected.patterns) : detected.patterns[i].kind = kind

\* C31: three or more categories among the sellers of the last hour give a
\* sell-side diversity finding whatever the buy side holds, and likewise
\* for the buyers
C31_DiversitySidesSeparate ==
    Ran =>
        /\ Cardinality(ViewTypes("sell")) >= 3 => DiversityFound("diversity_sell")
        /\ Cardinality(ViewTypes("buy")) >= 3 => DiversityFound("diversity_buy")

-----------------------------------------------------------------------------
(* TelegramRateLimiter *)

max_per_second == 3
max_per_minute == 20

RECURSIVE PopOlder(_, _)
\* while window and window[0] < cutoff: window.popleft()
PopOlder(window, cutoff) ==
    IF window # <<>> /\ Head(window) < cutoff
    THEN PopOlder(Tail(window), cutoff)
    ELSE window

\* the sleep wait_if_needed decides on, given the pruned windows: 1.1 s when
\* the per-second cap is met, else 61 s minus the age of the oldest entry
\* when the per-minute cap is met (slept only if positive), else none
WaitTime(sw, mw, t) ==
    IF Len(sw) >= max_per_second THEN 11
    ELSE IF Len(mw) >= max_per_minute
         THEN Max(0, 61 * Second - (t - mw[1]))
         ELSE 0

-----------------------------------------------------------------------------
(* Limiter study: concurrent callers of wait_if_needed.  A caller that has *)
(* to wait is suspended in asyncio.sleep and other callers run meanwhile.  *)

MaxCalls == 7
MaxTicks == 3
TickSteps == {1, 10, 200}

\* a limiter that recorded 19 sends two seconds apart, the last 4 s ago
BusyMinute == [i \in 1..19 |-> T0 - 400 + 20 * (i - 1)]

InitLimiter ==
    /\ now = T0
    /\ \/ /\ second_window = <<>> /\ minute_window = <<>> /\ released = <<>>
       \/ /\ second_window = <<BusyMinute[19]>>
          /\ minute_window = BusyMinute
          /\ released = BusyMinute
    /\ sleepers = <<>> /\ calls = 0 /\ ticks = 0
    /\ IdleThreshold /\ IdleLedger /\ IdleDetect /\ IdleDispatch /\ IdleTasks /\ IdleParse /\ IdleCost /\ IdleRoster /\ IdleSplit

\* wait_if_needed up to its first suspension: capture now, prune, decide;
\* without a wait the send is recorded and the call returns at once
WaitIfNeededEnter ==
    LET t   == now
        sw1 == PopOlder(second_window, t - Second)
        mw1 == PopOlder(minute_window, t - Minute)
        wait_time == WaitTime(sw1, mw1, t)
    IN  /\ calls < MaxCalls
        /\ calls' = calls + 1
        /\ IF wait_time > 0
           THEN /\ sleepers' = Append(sleepers, [captured |-> t, wakeAt |-> t + wait_time])
                /\ second_window' = sw1
                /\ minute_window' = mw1
                /\ UNCHANGED released
           ELSE /\ second_window' = Append(sw1, t)
                /\ minute_window' = Append(mw1, t)
                /\ released' = Append(released, now)
                /\ UNCHANGED sleepers
        /\ UNCHANGED <<now, ticks, thresholdVars, ledgerVars, detectVars, sent, dispatchVars,
                       taskVars,
                   parseVars, costVars, rosterVars, splitVars>>

\* wait_if_needed after asyncio.sleep returned: record the now captured at
\* entry in both windows and return
WaitIfNeededWake ==
    \E i \in 1..Len(sleepers) :
        /\ now >= sleepers[i].wakeAt
        /\ second_window' = Append(second_window, sleepers[i].captured)
        /\ minute_window' = Append(minute_window, sleepers[i].captured)
        /\ released' = Append(released, now)
        /\ sleepers' = SubSeq(sleepers, 1, i - 1) \o SubSeq(sleepers, i + 1, Len(sleepers))
        /\ UNCHANGED <<now, calls, ticks, thresholdVars, ledgerVars, detectVars, sent,
                       dispatchVars, taskVars,
                   parseVars, costVars, rosterVars, splitVars>>

\* the clock moves on
Tick ==
    \E d \in TickSteps :
        /\ ticks < MaxTicks
        /\ ticks' = ticks + 1
        /\ now' = now + d
        /\ UNCHANGED <<second_window, minute_window, sleepers, released, calls,
                       thresholdVars, ledgerVars, detectVars, sent, dispatchVars, taskVars,
                   parseVars, costVars, rosterVars, splitVars>>

NextLimiter == WaitIfNeededEnter \/ WaitIfNeededWake \/ Tick

SpecLimiter == InitLimiter /\ [][NextLimiter]_vars

\* number of callers released in the span ending at time t
ReleasedWithin(t, span) ==
    Cardinality({i \in 1..Len(released) : t - span < released[i] /\ released[i] <= t})

\* C2: in any rolling second at most 3 callers are released, in any rolling
\* minute at most 20
C2_CapsHold ==
    \A i \in 1..Len(released) :
        /\ ReleasedWithin(released[i], Second) <= 3
        /\ ReleasedWithin(released[i], Minute) <= 20

\* C29: a caller that slept is recorded with the time of its release: each
\* release appends the release time to the per-second and per-minute windows
C29_RecordedAtRelease ==
    [][released' # released =>
          /\ second_window' # <<>> /\ minute_window' # <<>>
          /\ second_window'[Len(second_window')] = released'[Len(released')]
          /\ minute_window'[Len(minute_window')] = released'[Len(released')]]_vars

-----------------------------------------------------------------------------
(* Dispatcher study: one send_to_telegram call at a time, the transport    *)
(* answering each send_message as it likes                                 *)

MaxMessages == 1
max_retries == 3

\* ALLOWED_USERS, split on commas
user_ids == <<"u1", "u2">>

\* what telegram_bot.send_message does: return, or raise "Flood control
\* exceeded" / 429, "Timed out", or anything else
Outcomes == {"ok", "flood", "timeout", "other"}

InitDispatch ==
    /\ now = T0
    /\ \/ /\ second_window = <<>> /\ minute_window = <<>> /\ released = <<>>
       \/ /\ second_window = <<T0, T0, T0>>
          /\ minute_window = <<T0, T0, T0>>
          /\ released = <<T0, T0, T0>>
    /\ sleepers = <<>> /\ calls = 0 /\ ticks = 0
    /\ disp = [pc |-> "idle"] /\ dispatchLog = <<>>
    /\ IdleThreshold /\ IdleLedger /\ IdleDetect /\ IdleTasks /\ IdleParse /\ IdleCost /\ IdleRoster /\ IdleSplit

\* a loop that ends at the first recipient
AfterRecipientReturn(msg, u) == [pc |-> "idle"]

\* a retry loop that starts over with the same recipient
AfterRecipientAgain(msg, u) == [pc |-> "send", msg |-> msg, user |-> u, attempt |-> 0]

\* the dispatcher's position after the retry loop of recipient u ended
AfterRecipient(msg, u) ==
    IF u < Len(user_ids)
    THEN [pc |-> "send", msg |-> msg, user |-> u + 1, attempt |-> 0]
    ELSE [pc |-> "idle"]

\* send_to_telegram(message) up to the first send_message: wait_if_needed
\* (run by this caller alone, its sleep included), then the recipient list
SendToTelegramStart ==
    LET t   == now
        sw1 == PopOlder(second_window, t - Second)
        mw1 == PopOlder(minute_window, t - Minute)
        wait_time == WaitTime(sw1, mw1, t)
    IN  /\ disp.pc = "idle"
        /\ calls < MaxMessages
        /\ calls' = calls + 1
        /\ now' = now + wait_time
        /\ second_window' = Append(sw1, t)
        /\ minute_window' = Append(mw1, t)
        /\ released' = Append(released, now + wait_time)
        /\ disp' = [pc |-> "send", msg |-> calls + 1, user |-> 1, attempt |-> 0]
        /\ UNCHANGED <<sleepers, ticks, dispatchLog, thresholdVars, ledgerVars,
                       detectVars, sent, taskVars,
                   parseVars, costVars, rosterVars, splitVars>>

\* a test that takes a timeout for throttling too
IsRateLimitErrorOrTimeout(outcome) == outcome \in {"flood", "timeout"}

\* "Flood control exceeded" in error_msg or "429" in error_msg
IsRateLimitError(outcome) == outcome = "flood"

\* "if attempt < max_retries - 1": no wait after the last attempt
BackoffBeforeRetry(attempt) == attempt < max_retries - 1

\* one pass of the retry loop: send_message and the handling of its outcome
SendMessageAttempt ==
    \E outcome \in Outcomes :
        LET wait_time == Min(30 * Second, (disp.attempt + 1) * 10 * Second)
        IN  /\ disp.pc = "send"
            /\ dispatchLog' = Append(dispatchLog,
                    [kind |-> "send", msg |-> disp.msg, user |-> disp.user,
                     attempt |-> disp.attempt, outcome |-> outcome, at |-> now])
            /\ disp' =
                 IF outcome # "ok" /\ IsRateLimitError(outcome)
                 THEN IF BackoffBeforeRetry(disp.attempt)
                      THEN [disp EXCEPT !.pc = "backoff"] @@ [wait_time |-> wait_time]
                      ELSE IF disp.attempt + 1 < max_retries
                           THEN [disp EXCEPT !.attempt = @ + 1]
                           ELSE AfterRecipient(disp.msg, disp.user)
                 ELSE AfterRecipient(disp.msg, disp.user)
            /\ UNCHANGED <<now, limiterVars, thresholdVars, ledgerVars, detectVars, sent,
                           taskVars,
                   parseVars, costVars, rosterVars, splitVars>>

\* asyncio.sleep(wait_time) of the retry loop, then the next attempt
BackoffSleep ==
    /\ disp.pc = "backoff"
    /\ now' = now + disp.wait_time
    /\ dispatchLog' = Append(dispatchLog,
            [kind |-> "sleep", msg |-> disp.msg, user |-> disp.user,
             attempt |-> disp.attempt, wait_time |-> disp.wait_time, at |-> now])
    /\ disp' = IF disp.attempt + 1 < max_retries
               THEN [pc |-> "send", msg |-> disp.msg, user |-> disp.user,
                     attempt |-> disp.attempt + 1]
               ELSE AfterRecipient(disp.msg, disp.user)
    /\ UNCHANGED <<limiterVars, thresholdVars, ledgerVars, detectVars, sent, taskVars,
                   parseVars, costVars, rosterVars, splitVars>>

NextDispatch == SendToTelegramStart \/ SendMessageAttempt \/ BackoffSleep

SpecDispatch == InitDispatch /\ [][NextDispatch]_vars

\* the same with the awaits of send_to_telegram returning: send_message
\* returns or raises, asyncio.sleep ends
SpecDispatchFair == SpecDispatch /\ WF_vars(NextDispatch)

\* the send_message calls made for recipient u of message m, and the waits
\* slept between them
AttemptsOf(m, u) ==
    SelectSeq(dispatchLog, LAMBDA e : e.kind = "send" /\ e.msg = m /\ e.user = u)
SleepsOf(m, u) ==
    SelectSeq(dispatchLog, LAMBDA e : e.kind = "sleep" /\ e.msg = m /\ e.user = u)

\* the dispatcher has left the retry loop of recipient u of message m
LeftRecipient(m, u) ==
    /\ AttemptsOf(m, u) # <<>>
    /\ \/ disp.pc = "idle"
       \/ disp.msg > m
       \/ disp.msg = m /\ disp.user > u

AllThrottled(m, u) ==
    \A i \in 1..Len(AttemptsOf(m, u)) : AttemptsOf(m, u)[i].outcome = "flood"

\* C10: a recipient throttled at every attempt is retried 3 times, after
\* waits of 10 s, 20 s and 30 s, and then the next recipient is served
C10_ThreeRetriesAfterTenTwentyThirty ==
    \A m \in 1..MaxMessages : \A u \in 1..Len(user_ids) :
        (LeftRecipient(m, u) /\ AllThrottled(m, u)) =>
            /\ Len(AttemptsOf(m, u)) = 1 + 3
            /\ [i \in 1..Len(SleepsOf(m, u)) |-> SleepsOf(m, u)[i].wait_time]
                   = <<10 * Second, 20 * Second, 30 * Second>>
            /\ (u < Len(user_ids) /\ disp.pc = "idle") => AttemptsOf(m, u + 1) # <<>>

\* send_to_telegram(message m) has returned
Dispatched(m) == calls >= m /\ (disp.pc = "idle" \/ disp.msg > m)

\* C11: whatever errors the transport reports, every recipient gets at least
\* one send_message call for each dispatched message
C11_EveryRecipientAttempted ==
    \A m \in 1..MaxMessages :
        Dispatched(m) => \A u \in 1..Len(user_ids) : AttemptsOf(m, u) # <<>>

\* the first recipient failed at every attempt (throttled, then timed out)
\* and the second was served all the same
C11_Witness ==
    /\ Dispatched(1)
    /\ Len(AttemptsOf(1, 1)) = 2
    /\ AttemptsOf(1, 1)[1].outcome = "flood"
    /\ AttemptsOf(1, 1)[2].outcome = "timeout"
    /\ Len(AttemptsOf(1, 2)) = 1
    /\ AttemptsOf(1, 2)[1].outcome = "other"

\* the send_message calls made so far, for every recipient and retry
SendAttempts == SelectSeq(dispatchLog, LAMBDA e : e.kind = "send")

\* the sends the limiter recorded for the dispatcher: one per wait_if_needed
PermitsRecorded == calls

\* C28: every send_message call has its own limiter permit, so the calls
\* made never outnumber the sends the limiter recorded
C28_EverySendHasPermit == Len(SendAttempts) <= PermitsRecorded

\* C39: whatever the transport does, a recipient gets at most 3
\* send_message calls for a message and send_to_telegram returns
C39_DispatchTerminates ==
    /\ [](\A m \in 1..MaxMessages : \A u \in 1..Len(user_ids) :
             Len(AttemptsOf(m, u)) <= max_retries)
    /\ \A m \in 1..MaxMessages : (calls >= m) ~> Dispatched(m)

\* every attempt for both recipients was throttled, or timed out, or failed
\* otherwise, and the call returned
C39_Witness ==
    /\ Dispatched(1)
    /\ Len(AttemptsOf(1, 1)) = max_retries /\ AllThrottled(1, 1)
    /\ Len(AttemptsOf(1, 2)) = 1
    /\ AttemptsOf(1, 2)[1].outcome \in {"timeout", "other"}

\* C12: a send_message call that timed out is the last one made for that
\* recipient and message, whatever its attempt number
C12_TimeoutNeverRetried ==
    \A m \in 1..MaxMessages : \A u \in 1..Len(user_ids) :
        \A i \in 1..Len(AttemptsOf(m, u)) :
            AttemptsOf(m, u)[i].outcome = "timeout" => i = Len(AttemptsOf(m, u))

\* a timeout at the first attempt and one at a retry, both left at once
C12_Witness ==
    /\ Dispatched(1)
    /\ Len(AttemptsOf(1, 1)) = 1
    /\ AttemptsOf(1, 1)[1].outcome = "timeout"
    /\ Len(AttemptsOf(1, 2)) = 2
    /\ AttemptsOf(1, 2)[1].outcome = "flood"
    /\ AttemptsOf(1, 2)[2].outcome = "timeout"
    /\ Len(SleepsOf(1, 2)) = 1

-----------------------------------------------------------------------------
(* Pipeline study: the _process_single_transaction tasks that              *)
(* handle_webhook gathers.  A task runs until it awaits; the awaits are    *)
(* the executor calls LPUSH, LTRIM, EXPIRE and LRANGE and the sends.       *)
(* CacheService.get/set contain no await, so the fallback of               *)
(* _store_transaction runs in one piece.  Any Redis command may raise.     *)

NumTasks == 2
MaxFaults == 1

\* n entries appended in the last hour by the profile-less wallet w4
Filler(n) ==
    [i \in 1..n |->
        [ timestamp |-> FreshTime, wallet |-> "w4", action |-> "buy",
          amount_usd |-> 2000, trader_type |-> "Unknown", market_cap |-> 0,
          ev |-> 0 ] ]

\* two tracked buyers in the last hour
TwoBuyers ==
    << [ timestamp |-> FreshTime, wallet |-> "w2", action |-> "buy",
         amount_usd |-> 2000, trader_type |-> "Volume Leader", market_cap |-> 0,
         ev |-> 0 ],
       [ timestamp |-> FreshTime, wallet |-> "w1", action |-> "buy",
         amount_usd |-> 2000, trader_type |-> "Alpha Trader", market_cap |-> 0,
         ev |-> 0 ] >>

\* [list, plain] contents of tokA's two keys when the deliveries arrive; the
\* plain key holds an entry after an earlier append took the fallback
PriorLedgers ==
    { [list |-> TwoBuyers, plain |-> Filler(1)],
      [list |-> Filler(LedgerCap - 1), plain |-> <<>>],
      [list |-> Filler(LedgerCap), plain |-> <<>>] }

\* a tracked wallet's buy, an insider-cluster wallet's buy and a swap under
\* the $100 floor, all of tokA
PlainSwap ==
    [ wallet_address |-> "w1", token_address |-> "tokA", is_buy |-> TRUE,
      usd_value |-> 2000, current_market_cap |-> 0 ]

PipelineSwaps ==
    { PlainSwap,
      [ wallet_address |-> "w3", token_address |-> "tokA", is_buy |-> TRUE,
        usd_value |-> 2000, current_market_cap |-> 0 ],
      [ wallet_address |-> "w1", token_address |-> "tokA", is_buy |-> TRUE,
        usd_value |-> 50, current_market_cap |-> 0 ] }

NoEntry == [ev |-> 0]

\* with several tasks in flight, ledgers at or next to the 200-entry cap
\* are studied with PlainSwap deliveries and a healthy Redis; the shorter
\* ones, and every ledger under a single task, with every swap and with up
\* to MaxFaults outages
NearCap(ledger) == Len(ledger.list) >= LedgerCap - 1

FaultBudget == IF NearCap(prior) /\ Len(task) > 1 THEN 0 ELSE MaxFaults

InitPipeline ==
    /\ now = T0
    /\ prior \in PriorLedgers
    /\ redisList  = [NoLedger EXCEPT !["tokA"] = prior.list]
    /\ redisPlain = [NoLedger EXCEPT !["tokA"] = prior.plain]
    /\ listExpire  = [NoExpiry EXCEPT !["tokA"] =
                         IF prior.list = <<>> THEN NoTTL ELSE FreshTime + Hour]
    /\ plainExpire = [NoExpiry EXCEPT !["tokA"] =
                         IF prior.plain = <<>> THEN NoTTL ELSE FreshTime + Hour]
    /\ \E swaps \in [1..NumTasks -> PipelineSwaps] :
          /\ NearCap(prior) => \A i \in 1..NumTasks : swaps[i] = PlainSwap
          /\ task = [i \in 1..NumTasks |->
                    [ pc |-> "queued", swap |-> swaps[i] @@ [ev |-> i],
                      entry |-> NoEntry, stored |-> FALSE, failed |-> FALSE ]]
    /\ faults = 0
    /\ sent = <<>>
    /\ detected = [op |-> "none"]
    /\ IdleThreshold /\ IdleLimiter /\ IdleDispatch /\ IdleParse /\ IdleCost /\ IdleRoster /\ IdleSplit

\* Redis raises during one step of a task (an outage may fail several
\* commands of the step): one more fault, within the budget
Raise == faults < FaultBudget /\ faults' = faults + 1

\* _process_single_transaction from its start to its first await: the two
\* filters; for an insider-cluster wallet the signal is sent first, for any
\* other wallet add_transaction builds the entry and submits LPUSH
TaskStart(i) ==
    IF ~ PassesFilters(task[i].swap) THEN [task[i] EXCEPT !.pc = "done"]
    ELSE IF task[i].swap.wallet_address \in insider_cluster
         THEN [task[i] EXCEPT !.pc = "insider_send"]
         ELSE [task[i] EXCEPT !.pc = "lpush",
                              !.entry = TransactionData(task[i].swap, Roster, now)]

\* handle_webhook: gather creates the tasks and the event loop runs each, in
\* the order of the delivery, up to its first await before any awaited
\* result is delivered
HandleWebhook ==
    /\ \A i \in DOMAIN task : task[i].pc = "queued"
    /\ task' = [i \in DOMAIN task |-> TaskStart(i)]
    /\ UNCHANGED <<now, faults, prior, ledgerVars, sent, detectVars, thresholdVars,
                   limiterVars, dispatchVars, parseVars, costVars, rosterVars, splitVars>>

\* send_to_telegram(insider_message) returned; add_transaction builds the
\* entry and submits LPUSH
InsiderSend(i) ==
    /\ task[i].pc = "insider_send"
    /\ sent' = Append(sent, [ev |-> task[i].swap.ev, kind |-> "insider"])
    /\ task' = [task EXCEPT ![i] =
          [@ EXCEPT !.pc = "lpush",
                    !.entry = TransactionData(task[i].swap, Roster, now)]]
    /\ UNCHANGED <<now, faults, prior, ledgerVars, detectVars, thresholdVars,
                   limiterVars, dispatchVars, parseVars, costVars, rosterVars, splitVars>>

\* a failure that ends every task of the delivery where it stands
FallbackEndsDelivery(i, getFails, setFails) ==
    LET tok == task[i].swap.token_address
    IN  /\ Raise
        /\ IF setFails
           THEN /\ UNCHANGED <<redisPlain, plainExpire>>
                /\ task' = [j \in DOMAIN task |->
                               IF j = i
                               THEN [task[j] EXCEPT !.pc = "done", !.failed = TRUE]
                               ELSE IF task[j].pc = "done" THEN task[j]
                               ELSE [task[j] EXCEPT !.pc = "cancelled"]]
           ELSE /\ redisPlain' = [redisPlain EXCEPT ![tok] =
                                     FallbackAppend(@, task[i].entry, getFails)]
                /\ plainExpire' = [plainExpire EXCEPT ![tok] = now + Hour]
                /\ task' = [task EXCEPT ![i] = [@ EXCEPT !.pc = "check", !.stored = TRUE]]

\* C15: when tokA's ledger holds 200 entries and one more entry is
\* appended, then at the moment the append has returned and its pattern
\* check is about to read, the ledger holds exactly 200 entries: the new
\* one and the 199 most recently appended previous ones.
C15_EvictedBeforeCheck ==
    (Len(prior.list) = LedgerCap /\ task[1].pc = "check")
        => /\ Len(redisList["tokA"]) = LedgerCap
           /\ redisList["tokA"] = LPush(SubSeq(prior.list, 1, LedgerCap - 1), task[1].entry)

\* C18: a view returned by the ledger read lists its entries in the order
\* they were appended, whichever key it was read from: an entry of this
\* delivery never stands before an entry that was in the ledger when the
\* delivery arrived.
C18_ViewInArrivalOrder ==
    detected.op = "read" =>
        \A a, b \in 1..Len(detected.view) :
            a < b => ~ (detected.view[a].ev > 0 /\ detected.view[b].ev = 0)

\* the except branch of _store_transaction, entered when a LIST command
\* raised: cache.get (None when it raises), append, keep 200, cache.set;
\* when SETEX raises, the except clause of CacheService.set names
\* json.JSONEncodeError, which does not exist, and the AttributeError ends
\* the task in the handler of _process_single_transaction
Fallback(i, getFails, setFails) ==
    LET tok == task[i].swap.token_address
    IN  /\ Raise
        /\ IF setFails
           THEN /\ UNCHANGED <<redisPlain, plainExpire>>
                /\ task' = [task EXCEPT ![i] = [@ EXCEPT !.pc = "done", !.failed = TRUE]]
           ELSE /\ redisPlain' = [redisPlain EXCEPT ![tok] =
                                     FallbackAppend(@, task[i].entry, getFails)]
                /\ plainExpire' = [plainExpire EXCEPT ![tok] = now + Hour]
                /\ task' = [task EXCEPT ![i] = [@ EXCEPT !.pc = "check", !.stored = TRUE]]

\* the executor ran redis.lpush
StoreLPush(i) ==
    LET tok == task[i].swap.token_address
    IN  /\ task[i].pc = "lpush"
        /\ \/ /\ redisList' = [redisList EXCEPT ![tok] = LPush(@, task[i].entry)]
              /\ task' = [task EXCEPT ![i] = [@ EXCEPT !.pc = "ltrim"]]
              /\ UNCHANGED <<faults, redisPlain, listExpire, plainExpire>>
           \/ /\ \E getFails \in BOOLEAN, setFails \in BOOLEAN :
                    Fallback(i, getFails, setFails)
              /\ UNCHANGED <<redisList, listExpire>>
        /\ UNCHANGED <<now, prior, sent, detectVars, thresholdVars, limiterVars,
                       dispatchVars, parseVars, costVars, rosterVars, splitVars>>

\* the executor ran redis.ltrim(list_key, 0, 199)
StoreLTrim(i) ==
    LET tok == task[i].swap.token_address
    IN  /\ task[i].pc = "ltrim"
        /\ \/ /\ redisList' = [redisList EXCEPT ![tok] = LTrim(@)]
              /\ task' = [task EXCEPT ![i] = [@ EXCEPT !.pc = "expire"]]
              /\ UNCHANGED <<faults, redisPlain, listExpire, plainExpire>>
           \/ /\ \E getFails \in BOOLEAN, setFails \in BOOLEAN :
                    Fallback(i, getFails, setFails)
              /\ UNCHANGED <<redisList, listExpire>>
        /\ UNCHANGED <<now, prior, sent, detectVars, thresholdVars, limiterVars,
                       dispatchVars, parseVars, costVars, rosterVars, splitVars>>

\* the executor ran redis.expire(list_key, 3600); _store_transaction returns
StoreExpire(i) ==
    LET tok == task[i].swap.token_address
    IN  /\ task[i].pc = "expire"
        /\ \/ /\ listExpire' = [listExpire EXCEPT ![tok] = now + Hour]
              /\ task' = [task EXCEPT ![i] = [@ EXCEPT !.pc = "check", !.stored = TRUE]]
              /\ UNCHANGED <<faults, redisList, redisPlain, plainExpire>>
           \/ /\ \E getFails \in BOOLEAN, setFails \in BOOLEAN :
                    Fallback(i, getFails, setFails)
              /\ UNCHANGED <<redisList, listExpire>>
        /\ UNCHANGED <<now, prior, sent, detectVars, thresholdVars, limiterVars,
                       dispatchVars, parseVars, costVars, rosterVars, splitVars>>

\* _check_patterns: the ledger read (LRANGE in the executor, the plain key
\* when it raises) and the three detectors; the task ends when they return
\* nothing
TaskCheck(i) ==
    LET tok == task[i].swap.token_address
    IN  /\ task[i].pc = "check"
        /\ \E lrangeFails \in BOOLEAN, getFails \in BOOLEAN :
              LET token_txs == GetRecentTransactions(redisList[tok], redisPlain[tok],
                                                     lrangeFails, getFails, 1, now)
                  patterns == CheckPatterns(token_txs, now)
              IN  /\ getFails => lrangeFails
                  /\ IF lrangeFails THEN Raise ELSE UNCHANGED faults
                  /\ detected' = [ op |-> "read", view |-> token_txs,
                                   patterns |-> patterns ]
                  /\ task' = [task EXCEPT ![i] =
                        [@ EXCEPT !.pc = IF ShouldNotify(patterns)
                                         THEN "notify" ELSE "done"]]
        /\ UNCHANGED <<now, prior, ledgerVars, sent, thresholdVars, limiterVars,
                       dispatchVars, parseVars, costVars, rosterVars, splitVars>>

\* the alert: a second ledger read, format_confluence_notification and
\* send_to_telegram
TaskNotify(i) ==
    LET tok == task[i].swap.token_address
    IN  /\ task[i].pc = "notify"
        /\ \E lrangeFails \in BOOLEAN, getFails \in BOOLEAN :
              LET recent_txs == GetRecentTransactions(redisList[tok], redisPlain[tok],
                                                      lrangeFails, getFails, 1, now)
              IN  /\ getFails => lrangeFails
                  /\ IF lrangeFails THEN Raise ELSE UNCHANGED faults
                  /\ detected' = [ op |-> "read", view |-> recent_txs,
                                   patterns |-> <<>> ]
        /\ task' = [task EXCEPT ![i] = [@ EXCEPT !.pc = "done"]]
        /\ sent' = Append(sent, [ev |-> task[i].swap.ev, kind |-> "confluence"])
        /\ UNCHANGED <<now, prior, ledgerVars, thresholdVars, limiterVars,
                       dispatchVars, parseVars, costVars, rosterVars, splitVars>>

NextPipeline ==
    \/ HandleWebhook
    \/ \E i \in 1..NumTasks :
        \/ InsiderSend(i)
        \/ StoreLPush(i)
        \/ StoreLTrim(i)
        \/ StoreExpire(i)
        \/ TaskCheck(i)
        \/ TaskNotify(i)

SpecPipeline == InitPipeline /\ [][NextPipeline]_vars

\* C1: whatever the interleaving of the appends, a view returned by the
\* ledger read holds no entry older than the requested hour and at most 200
\* entries
C1_ViewWithinWindowAndCap ==
    detected.op = "read" =>
        /\ Len(detected.view) <= LedgerCap
        /\ \A k \in 1..Len(detected.view) : detected.view[k].timestamp >= now - Hour

\* the appends of the delivery that returned
Appended == { i \in 1..NumTasks : task[i].stored }

AllDone == \A i \in 1..NumTasks : task[i].pc = "done" /\ ~ task[i].failed

\* C5: once the k appends of a delivery have all completed, and k plus the
\* prior length is at most 200, tokA's ledger (its list key and its plain
\* key) holds every prior entry and the k new ones
C5_NoAppendLost ==
    (/\ AllDone
     /\ Len(prior.list) + Len(prior.plain) + Cardinality(Appended) <= LedgerCap)
        => \A e \in Range(prior.list) \cup Range(prior.plain)
                        \cup { task[i].entry : i \in Appended } :
                e \in Range(redisList["tokA"]) \cup Range(redisPlain["tokA"])

\* C6: the entries stored for tokA are in the order in which their swaps
\* arrived: LPUSH puts a later arrival nearer the head of the list, the
\* fallback puts it nearer the end of the plain key
C6_StoredOrderIsArrivalOrder ==
    /\ \A a, b \in 1..Len(redisList["tokA"]) :
          (a < b /\ redisList["tokA"][b].ev > 0)
              => redisList["tokA"][a].ev > redisList["tokA"][b].ev
    /\ \A a, b \in 1..Len(redisPlain["tokA"]) :
          (a < b /\ redisPlain["tokA"][a].ev > 0)
              => redisPlain["tokA"][a].ev < redisPlain["tokA"][b].ev

-----------------------------------------------------------------------------
(* Append study: one delivery with a single swap of tokA, so a single      *)
(* add_transaction in flight, on each of the prior ledgers and with up to  *)
(* MaxFaults Redis outages.                                                *)

InitAppend ==
    /\ now = T0
    /\ prior \in PriorLedgers
    /\ redisList  = [NoLedger EXCEPT !["tokA"] = prior.list]
    /\ redisPlain = [NoLedger EXCEPT !["tokA"] = prior.plain]
    /\ listExpire  = [NoExpiry EXCEPT !["tokA"] = FreshTime + Hour]
    /\ plainExpire = [NoExpiry EXCEPT !["tokA"] =
                         IF prior.plain = <<>> THEN NoTTL ELSE FreshTime + Hour]
    /\ \E swap \in PipelineSwaps :
          task = << [ pc |-> "queued", swap |-> swap @@ [ev |-> 1],
                      entry |-> NoEntry, stored |-> FALSE, failed |-> FALSE ] >>
    /\ faults = 0
    /\ sent = <<>>
    /\ detected = [op |-> "none"]
    /\ IdleThreshold /\ IdleLimiter /\ IdleDispatch /\ IdleParse /\ IdleCost /\ IdleRoster /\ IdleSplit

NextAppend ==
    \/ HandleWebhook
    \/ InsiderSend(1)
    \/ StoreLPush(1)
    \/ StoreLTrim(1)
    \/ StoreExpire(1)
    \/ TaskCheck(1)
    \/ TaskNotify(1)

SpecAppend == InitAppend /\ [][NextAppend]_vars

\* C37: an entry that _store_transaction stored, by the list commands or by
\* its fallback, is in the view that a ledger read of the token returns
\* while the store is reachable
C37_StoredEntryIsRead ==
    \A i \in DOMAIN task :
        task[i].stored =>
            task[i].entry \in
                Range(GetRecentTransactions(redisList[task[i].swap.token_address],
                                            redisPlain[task[i].swap.token_address],
                                            FALSE, FALSE, 1, now))

\* Gather study: the tasks of one delivery on the short prior ledger, with
\* up to MaxFaults outages; the first two events are any swaps, the others
\* are under the $100 floor.  The event loop runs every task that can run
\* and every executor call returns, so a step that can be taken is taken.
InitGather ==
    /\ InitPipeline
    /\ ~ NearCap(prior)
    /\ \A i \in 3..NumTasks : ~ PassesFilters(task[i].swap)

SpecGather == InitGather /\ [][NextPipeline]_vars /\ WF_vars(NextPipeline)

\* a store error ended the processing of some event of the delivery
SomeFailed == \E i \in 1..NumTasks : task[i].failed

\* every task that gather created has returned
AllReturned == \A i \in 1..NumTasks : task[i].pc = "done"

\* C35: when the processing of one event of a delivery fails, every task
\* of the delivery still returns, the others having run to their end
C35_FailureScopedToEvent == SomeFailed ~> AllReturned

\* one event failed in its store while another of the same delivery was
\* appended and checked
C35_Witness ==
    /\ AllReturned
    /\ \E i, j \in 1..NumTasks :
          /\ task[i].failed /\ ~ task[i].stored
          /\ task[j].stored /\ ~ task[j].failed

-----------------------------------------------------------------------------
(* Normalizer study: handle_webhook on one delivery.  parse_helius_webhook *)
(* walks the transactions of the payload and, inside each, its token       *)
(* transfers; the payload is kept as the sequence of its token transfers   *)
(* in that order, each carrying the number of its transaction and what     *)
(* the transaction says (fee payer, shape).  The events returned are then  *)
(* handed to _process_single_transaction one after the other with the      *)
(* store reachable.                                                        *)

MaxUnits == 2

\* self.alpha_addresses: the watched wallets
alpha_addresses == Wallets

\* "usd_value = sol_amount * 100  # Fallback SOL price"
FallbackSolPrice == 100

\* a token transfer of the payload.  shape: "ok", "no_mint" (the transfer
\* has no 'mint'), "not_object" (the transfer is not a JSON object),
\* "tx_not_object" (the transaction record is not a JSON object; it stands
\* alone in its transaction).  dir: the wallet receives ("buy"), sends
\* ("sell"), does both ("both": fromUserAccount and toUserAccount are the
\* wallet) or is not a party ("none").  resolver: what the price service
\* does for this transfer.  sol: the SOL moved by the native transfers of
\* the transaction; sol_price, cap: what the price service computes when
\* it works.
Unit(shape, payer, mint, dir, resolver) ==
    [ shape |-> shape, payer |-> payer, mint |-> mint, dir |-> dir,
      resolver |-> resolver, sol |-> 20, sol_price |-> 150, cap |-> 2000000 ]

UnitKinds ==
    { Unit("ok", "w1", "tokA", "buy", "ok"),
      Unit("ok", "w1", "tokA", "sell", "no_sol_price"),
      Unit("ok", "w1", "tokA", "buy", "no_metadata"),
      Unit("ok", "w1", "tokA", "buy", "raises"),
      Unit("ok", "w1", WSOL, "buy", "ok"),
      Unit("ok", "w1", USDT, "buy", "ok"),
      Unit("ok", "w1", USDC, "sell", "ok"),
      Unit("ok", "w1", "tokA", "none", "ok"),
      Unit("ok", "w1", "tokA", "both", "ok"),
      Unit("ok", "w1", "tokB", "buy", "ok"),
      Unit("no_mint", "w1", "tokA", "buy", "ok"),
      Unit("not_object", "w1", "tokA", "buy", "ok"),
      Unit("tx_not_object", "w1", "tokA", "buy", "ok"),
      Unit("ok", "w9", "tokA", "buy", "ok") }

ResolverFailures == {"no_sol_price", "no_metadata", "raises"}

\* a transaction numbering of n transfers: starts at 1, never decreases,
\* never skips
TxNumbering(n, tx) ==
    /\ tx[1] = 1
    /\ \A i \in 1..(n - 1) : tx[i + 1] \in {tx[i], tx[i] + 1}

\* transfers of one transaction share its fee payer, and a record that is
\* not an object has no transfers of its own
SameTransaction(n, kinds, tx) ==
    \A i, j \in 1..n :
        (i # j /\ tx[i] = tx[j])
            => /\ kinds[i].payer = kinds[j].payer
               /\ kinds[i].shape # "tx_not_object"

\* a transaction delivered again carries the signature of its first
\* delivery and the same transfers: sig[i] is the number of the first
\* transaction of the payload with the signature of transfer i's transaction
Redelivery(n, kinds, tx, sig) ==
    /\ \A i \in 1..n : sig[i] <= tx[i]
    /\ \A i, j \in 1..n : tx[i] = tx[j] => sig[i] = sig[j]
    /\ \A i \in 1..n : sig[i] < tx[i] =>
          /\ \E j \in 1..n : tx[j] = sig[i] /\ sig[j] = sig[i]
          /\ \A j \in 1..n : tx[j] = sig[i] =>
                /\ Cardinality({k \in 1..n : tx[k] = tx[i]})
                      = Cardinality({k \in 1..n : tx[k] = tx[j]})
                /\ \A k \in 1..n :
                      (tx[k] = tx[i] /\ Cardinality({m \in 1..k : tx[m] = tx[i]})
                                        = Cardinality({m \in 1..j : tx[m] = tx[j]}))
                          => kinds[k] = kinds[j]

\* a delivery whose body is JSON, or one whose body request.json() cannot
\* read
InitParse ==
    /\ now = T0
    /\ \/ /\ webhook = "received"
          /\ \E n \in 1..MaxUnits :
             \E kinds \in [1..n -> UnitKinds] :
             \E tx \in [1..n -> 1..n] :
             \E sig \in [1..n -> 1..n] :
                /\ TxNumbering(n, tx)
                /\ SameTransaction(n, kinds, tx)
                /\ Redelivery(n, kinds, tx, sig)
                /\ payload = [i \in 1..n |-> kinds[i] @@ [tx |-> tx[i], sig |-> sig[i]]]
       \/ /\ webhook = "unreadable"
          /\ payload = <<>>
    /\ parsed = <<>> /\ cursor = 0 /\ response = 0
    /\ IdleThreshold /\ IdleLedger /\ IdleDetect /\ IdleLimiter /\ IdleDispatch
    /\ IdleTasks /\ IdleCost /\ IdleRoster /\ IdleSplit

\* a wrapped-SOL test that never matches
IsWrappedSolNever(mint) == FALSE

\* "if token_address == 'So111...112': continue"
IsWrappedSol(mint) == mint = WSOL

\* a resolver whose failure leaves the market cap it would have computed
ResolvedCapStale(u) == u.cap

\* current_market_cap of the event: market_data['market_cap'] when the SOL
\* price is there and the metadata fetch worked, 0 in the zero-valued
\* result, in the no-price branch and in the except branch
ResolvedCap(u) == IF u.resolver = "ok" THEN u.cap ELSE 0

\* usd_value of the event: sol_amount * sol_price when get_sol_price
\* returned a price, sol_amount * 100 otherwise
ResolvedUsd(u) ==
    IF u.resolver \in {"ok", "no_metadata"}
    THEN u.sol * u.sol_price
    ELSE u.sol * FallbackSolPrice

\* one turn of the loops of parse_helius_webhook on transfer number ev:
\* "abort" when an exception reaches the outer except, "skip" on a
\* continue, "emit" with the parsed_tx appended
ParseTransfer(u, ev) ==
    IF u.shape = "tx_not_object" THEN [status |-> "abort"]
    ELSE IF u.payer \notin alpha_addresses THEN [status |-> "skip"]
    ELSE IF u.shape = "not_object" THEN [status |-> "abort"]
    ELSE IF u.shape = "no_mint" THEN [status |-> "skip"]
    ELSE IF IsWrappedSol(u.mint) THEN [status |-> "skip"]
    ELSE IF u.dir = "none" THEN [status |-> "skip"]
    ELSE [ status |-> "emit",
           event |-> [ wallet_address |-> u.payer,
                       token_address |-> u.mint,
                       is_buy |-> (u.dir \in {"buy", "both"}),
                       usd_value |-> ResolvedUsd(u),
                       current_market_cap |-> ResolvedCap(u),
                       signature |-> u.sig,
                       ev |-> ev ] ]

\* parse_helius_webhook from transfer i on, acc being parsed_transactions
\* so far: the outer except ends the walk and what was appended is returned
RECURSIVE ParseFrom(_, _, _)
ParseFrom(units, i, acc) ==
    IF i > Len(units) THEN acc
    ELSE LET r == ParseTransfer(units[i], i)
         IN  CASE r.status = "abort" -> acc
               [] r.status = "skip"  -> ParseFrom(units, i + 1, acc)
               [] r.status = "emit"  -> ParseFrom(units, i + 1, Append(acc, r.event))

\* "transactions = await self.parse_helius_webhook(webhook_data)"
ParseHeliusWebhook ==
    /\ webhook = "received"
    /\ parsed' = ParseFrom(payload, 1, <<>>)
    /\ webhook' = "parsed"
    /\ UNCHANGED <<now, payload, cursor, response, thresholdVars, ledgerVars,
                   detectVars, sent, limiterVars, dispatchVars, taskVars, costVars,
                   rosterVars, splitVars>>

\* the next parsed event goes through _process_single_transaction
ProcessParsed ==
    /\ webhook = "parsed"
    /\ cursor < Len(parsed)
    /\ ProcessSwap(parsed[cursor + 1])
    /\ cursor' = cursor + 1
    /\ UNCHANGED <<webhook, payload, parsed, response, costVars, rosterVars, splitVars>>

\* the exception of the endpoint: request.json() raised
WebhookRaised == webhook = "unreadable"

\* helius_webhook answers.  handle_webhook has returned: it catches every
\* exception itself, parse_helius_webhook and _process_single_transaction
\* catch theirs, and gather collects the rest, so the try of the endpoint
\* only sees what request.json() raises
HeliusWebhookRespond ==
    /\ response = 0
    /\ \/ webhook = "unreadable"
       \/ webhook = "parsed" /\ cursor = Len(parsed)
    /\ response' = IF WebhookRaised THEN 500 ELSE 200
    /\ UNCHANGED <<now, webhook, payload, parsed, cursor, thresholdVars, ledgerVars,
                   detectVars, sent, limiterVars, dispatchVars, taskVars, costVars,
                   rosterVars, splitVars>>

NextParse == ParseHeliusWebhook \/ ProcessParsed \/ HeliusWebhookRespond

SpecParse == InitParse /\ [][NextParse]_vars

\* the transfers of the payload whose token is wrapped SOL or a stablecoin
ExcludedUnits ==
    { i \in 1..Len(payload) :
        payload[i].shape = "ok" /\ payload[i].mint \in excluded_tokens }

\* C14: a transfer of wrapped SOL yields no parsed event, and no transfer
\* of wrapped SOL, USDT or USDC ever gets a ledger entry, a detector run
\* or a notification.
C14_ExcludedTokensGoNowhere ==
    /\ \A k \in 1..Len(parsed) : parsed[k].token_address # WSOL
    /\ \A tok \in excluded_tokens : redisList[tok] = <<>> /\ redisPlain[tok] = <<>>
    /\ detected.op = "add" => detected.swap.ev \notin ExcludedUnits
    /\ \A k \in 1..Len(sent) : sent[k].ev \notin ExcludedUnits

\* a delivery with a wrapped-SOL transfer and a stablecoin transfer of a
\* watched wallet, parsed and fully processed: only the stablecoin event
\* was emitted and it went no further
C14_Witness ==
    /\ webhook = "parsed" /\ cursor = Len(parsed)
    /\ Len(payload) = 2
    /\ payload[1].mint = WSOL /\ payload[1].shape = "ok"
    /\ payload[2].mint = USDT /\ payload[2].shape = "ok"
    /\ Len(parsed) = 1 /\ parsed[1].token_address = USDT
    /\ detected.op = "skip" /\ sent = <<>>

\* the transfers of the payload that parse_helius_webhook turns into an
\* event when nothing before them ends the walk: well-formed, of a watched
\* wallet, not wrapped SOL, the wallet a party
SwapUnits ==
    { i \in 1..Len(payload) :
        /\ payload[i].shape = "ok"
        /\ payload[i].payer \in alpha_addresses
        /\ payload[i].mint # WSOL
        /\ payload[i].dir # "none" }

\* the transfers whose record, or whose transaction record, is ill-typed
IllTypedUnits ==
    { i \in 1..Len(payload) : payload[i].shape \in {"not_object", "tx_not_object"} }

\* the events returned for transfer i
EventsOf(i) == { k \in 1..Len(parsed) : parsed[k].ev = i }

\* C20: when the resolver fails for a transfer (no SOL price, no metadata,
\* or an exception), the parse still returns exactly one event for it and
\* that event's market cap is 0.
C20_ResolverFailureStillEmits ==
    webhook = "parsed" =>
        \A i \in SwapUnits :
            (/\ payload[i].resolver \in ResolverFailures
             /\ \A j \in IllTypedUnits : j > i)
                => /\ Cardinality(EventsOf(i)) = 1
                   /\ \A k \in EventsOf(i) :
                         /\ parsed[k].current_market_cap = 0
                         /\ parsed[k].token_address = payload[i].mint
                         /\ parsed[k].wallet_address = payload[i].payer

\* two transfers, the first without a SOL price and the second with the
\* resolver raising: both events returned, both with market cap 0
C20_Witness ==
    /\ webhook = "parsed"
    /\ Len(payload) = 2
    /\ payload[1].resolver = "no_sol_price" /\ payload[2].resolver = "raises"
    /\ Len(parsed) = 2
    /\ parsed[1].current_market_cap = 0 /\ parsed[2].current_market_cap = 0
    /\ parsed[1].usd_value = 2000

\* C19: a malformed transfer or transaction record is the only thing the
\* parse leaves out: every well-formed transfer of a watched wallet in the
\* same payload, before or after it, gets its event.
C19_MalformedSkippedAlone ==
    webhook = "parsed" => \A i \in SwapUnits : EventsOf(i) # {}

\* C32: a transfer in which the watched wallet is both sender and receiver,
\* or neither, gives no event
C32_AmbiguousDirectionGivesNoEvent ==
    webhook = "parsed" =>
        \A i \in 1..Len(payload) :
            payload[i].dir \in {"both", "none"} => EventsOf(i) = {}

\* the events that went through _process_single_transaction and passed its
\* filters; all of them are swaps of tokA by w1
PassedEvents == {k \in 1..cursor : PassesFilters(parsed[k])}

\* C33: processing an event that passes the filters appends a fill to the
\* cost-basis record of its (wallet, token) pair
C33_EveryEventRecordsFill ==
    webhook = "parsed" => Len(costBasis) >= Cardinality(PassedEvents)

\* the token of the event that the step processes
StepToken == parsed[cursor + 1].token_address

\* the view a ledger read of token tok returns, before and after the step
ViewOf(tok) ==
    GetRecentTransactions(redisList[tok], redisPlain[tok], FALSE, FALSE, 1, now)
ViewAfter(tok) ==
    GetRecentTransactions(redisList'[tok], redisPlain'[tok], FALSE, FALSE, 1, now')

\* C38: processing an event of one token leaves the ledger and the read
\* view of every other token as they were, and the detectors run on
\* entries of the event's token only
C38_LedgersIsolatedPerToken ==
    [][cursor' = cursor + 1 =>
          /\ \A tok \in Tokens \ {StepToken} :
                /\ redisList'[tok] = redisList[tok]
                /\ redisPlain'[tok] = redisPlain[tok]
                /\ listExpire'[tok] = listExpire[tok]
                /\ plainExpire'[tok] = plainExpire[tok]
                /\ ViewAfter(tok) = ViewOf(tok)
          /\ detected'.op = "add" =>
                \A e \in Range(detected'.view) :
                    payload[e.ev].mint = StepToken]_vars

\* an event of tokB was appended while tokA's ledger held an entry, or the
\* other way round
C38_Witness ==
    /\ cursor = 2 /\ detected.op = "add"
    /\ redisList["tokA"] # <<>> /\ redisList["tokB"] # <<>>

\* the walk of the payload ended in the outer except of
\* parse_helius_webhook
ParseAborted ==
    \E i \in 1..Len(payload) : ParseTransfer(payload[i], i).status = "abort"

\* C21: the endpoint answers 200 when the processing of the delivery
\* succeeded and a 5xx status when it failed inside (here: the
\* normalization raised).
C21_FailureAnswered5xx ==
    response # 0 =>
        /\ (~ ParseAborted /\ ~ WebhookRaised) => response = 200
        /\ (ParseAborted \/ WebhookRaised) => response >= 500

\* two transfers of the payload are the same transfer of one transaction
\* delivered twice
SameDelivered(i, j) ==
    /\ i # j
    /\ payload[i].sig = payload[j].sig
    /\ payload[i].tx # payload[j].tx
    /\ payload[i].mint = payload[j].mint /\ payload[i].dir = payload[j].dir

\* C23: once a delivery in which a transaction comes twice (same
\* signature) is processed, the ledger holds the transaction's transfer
\* once, as if it had been delivered once.
C23_RedeliveryCountsOnce ==
    (webhook = "parsed" /\ cursor = Len(parsed)) =>
        \A a, b \in 1..Len(redisList["tokA"]) :
            ~ SameDelivered(redisList["tokA"][a].ev, redisList["tokA"][b].ev)

-----------------------------------------------------------------------------
(* Cost-basis study: record_transaction and get_average_cost_basis of      *)
(* CostBasisService on one (wallet, token) key.                            *)
(*                                                                         *)
(* Amounts and market caps are Python floats.  They are modelled as        *)
(* floating-point numbers with a mantissa of MantissaBits bits instead of  *)
(* 53: every sum and product is rounded to the nearest representable       *)
(* value, ties to the even mantissa.  Amounts, caps, sums and products are *)
(* kept as naturals; a quotient is kept in units of 2^-(MantissaBits-1),   *)
(* which holds every quotient of at least 1 exactly as rounded.            *)

MaxFills == 3
MantissaBits == 5

\* "if len(existing_txs) > 100: existing_txs = existing_txs[-100:]"
CostBasisCap == 100

\* the nearest value with MantissaBits significant bits, ties to even
FlRound(n) ==
    IF n < 2^MantissaBits THEN n
    ELSE LET k  == CHOOSE j \in 1..24 :
                       n >= 2^(MantissaBits + j - 1) /\ n < 2^(MantissaBits + j)
             q  == 2^k
             r  == n % q
             lo == n - r
         IN  IF 2 * r < q THEN lo
             ELSE IF 2 * r > q THEN lo + q
             ELSE IF (lo \div q) % 2 = 0 THEN lo ELSE lo + q

\* float addition and multiplication
FlAdd(a, b) == FlRound(a + b)
FlMul(a, b) == FlRound(a * b)

\* float division n / d for d > 0, in units of 2^-(MantissaBits-1)
FlDiv(n, d) ==
    LET big == n * 2^(MantissaBits - 1)
        k   == CHOOSE j \in 0..24 :
                   /\ big < d * 2^(MantissaBits + j)
                   /\ j > 0 => big >= d * 2^(MantissaBits + j - 1)
        q   == d * 2^k
        f   == big \div q
        r   == big % q
        m   == IF 2 * r < q THEN f
               ELSE IF 2 * r > q THEN f + 1
               ELSE IF f % 2 = 0 THEN f ELSE f + 1
    IN  m * 2^k

\* sum(...) of Python: left to right from 0
RECURSIVE FlSum(_, _)
FlSum(xs, acc) ==
    IF xs = <<>> THEN acc ELSE FlSum(Tail(xs), FlAdd(acc, Head(xs)))

OfAction(transactions, action) ==
    SelectSeq(transactions, LAMBDA tx : tx.action = action)

\* sum(tx["amount"] for tx in side)
TotalAmount(side) ==
    FlSum([k \in 1..Len(side) |-> side[k].amount], 0)

NoAverage == [defined |-> FALSE]

\* a mean that is the market cap of the side's first fill
FirstFillMcap(side) ==
    IF TotalAmount(side) > 0
    THEN [defined |-> TRUE, scaled |-> FlDiv(side[1].market_cap, 1)]
    ELSE NoAverage

\* sum(tx["amount"] * tx["market_cap"] for tx in side) / total_amount when
\* total_amount > 0, None otherwise
WeightedAvgMcap(side) ==
    IF TotalAmount(side) > 0
    THEN [ defined |-> TRUE,
           scaled |-> FlDiv(FlSum([k \in 1..Len(side) |->
                                      FlMul(side[k].amount, side[k].market_cap)], 0),
                            TotalAmount(side)) ]
    ELSE NoAverage

\* get_average_cost_basis on the stored list: None when the key is empty
GetAverageCostBasis(transactions) ==
    IF transactions = <<>> THEN [op |-> "average", found |-> FALSE]
    ELSE [ op |-> "average", found |-> TRUE,
           total_buys |-> Len(OfAction(transactions, "buy")),
           total_sells |-> Len(OfAction(transactions, "sell")),
           avg_buy_market_cap |-> WeightedAvgMcap(OfAction(transactions, "buy")),
           avg_sell_market_cap |-> WeightedAvgMcap(OfAction(transactions, "sell")) ]

\* the value record_transaction hands to cache.set
AppendFill(existing_txs, transaction) ==
    LET txs == Append(existing_txs, transaction)
    IN  IF Len(txs) > CostBasisCap
        THEN SubSeq(txs, Len(txs) - CostBasisCap + 1, Len(txs))
        ELSE txs

FillAmounts == {1, 2}
FillCaps == {7, 11}

\* The key is empty, or it holds one buy followed by sells, one fill short
\* of the cap, from earlier calls.
InitCost ==
    /\ now = T0
    /\ \/ costBasis = <<>>
       \/ costBasis = [k \in 1..(CostBasisCap - 1) |->
                          [ action |-> IF k = 1 THEN "buy" ELSE "sell",
                            amount |-> 1, market_cap |-> 7,
                            timestamp |-> k - CostBasisCap ]]
    /\ recorded = costBasis
    /\ averaged = [op |-> "none"]
    /\ faults = 0
    /\ task = <<>> /\ prior = <<>>
    /\ IdleThreshold /\ IdleLedger /\ IdleDetect /\ IdleLimiter /\ IdleDispatch
    /\ IdleParse /\ IdleRoster /\ IdleSplit

\* one record_transaction call, start to return.  CacheService.get and
\* CacheService.set call the blocking client and never suspend, so the
\* event loop runs the call without interleaving another one.  A failed
\* read gives None, read as the empty list; a failed SETEX raises inside
\* CacheService.set and the except of record_transaction swallows it.
RecordTransaction ==
    /\ averaged.op = "none"
    /\ \/ Len(recorded) < MaxFills
       \/ /\ Len(recorded) >= CostBasisCap - 1
          /\ Len(recorded) < CostBasisCap - 1 + MaxFills
    /\ \E action \in {"buy", "sell"}, amount \in FillAmounts, market_cap \in FillCaps,
          getFails \in BOOLEAN, setFails \in BOOLEAN :
          LET transaction == [ action |-> action, amount |-> amount,
                               market_cap |-> market_cap,
                               timestamp |-> Len(recorded) + 1 ]
          IN  /\ IF getFails \/ setFails
                 THEN faults < MaxFaults /\ faults' = faults + 1
                 ELSE UNCHANGED faults
              /\ costBasis' = IF setFails THEN costBasis
                              ELSE AppendFill(CacheGet(costBasis, getFails), transaction)
              /\ recorded' = Append(recorded, transaction)
    /\ UNCHANGED <<now, averaged, task, prior, thresholdVars, ledgerVars, detectVars,
                   sent, limiterVars, dispatchVars, parseVars, rosterVars, splitVars>>

\* one get_average_cost_basis call on the key (of a short list)
AverageCostBasis ==
    /\ averaged.op = "none"
    /\ Len(costBasis) <= MaxFills
    /\ averaged' = GetAverageCostBasis(costBasis)
    /\ UNCHANGED <<now, costBasis, recorded, taskVars, thresholdVars, ledgerVars,
                   detectVars, sent, limiterVars, dispatchVars, parseVars, rosterVars,
                   splitVars>>

NextCost == RecordTransaction \/ AverageCostBasis

SpecCost == InitCost /\ [][NextCost]_vars

\* the stored fills recorded in another order
Reordered(f) == [k \in 1..Len(costBasis) |-> costBasis[f[k]]]

SameAverages(a, b) ==
    /\ a.found = b.found
    /\ a.found => /\ a.avg_buy_market_cap = b.avg_buy_market_cap
                  /\ a.avg_sell_market_cap = b.avg_sell_market_cap

ExactSide(side) ==
    SumAmountRange([k \in 1..Len(side) |->
                       [amount_usd |-> side[k].amount * side[k].market_cap]],
                   1, Len(side)) < 2^MantissaBits

ExactFills(transactions) ==
    /\ ExactSide(OfAction(transactions, "buy"))
    /\ ExactSide(OfAction(transactions, "sell"))

C17_NoFillLost ==
    (Len(recorded) >= 2 /\ Len(recorded) <= CostBasisCap) =>
        \A i \in 1..Len(recorded) :
            \E k \in 1..Len(costBasis) : costBasis[k] = recorded[i]

\* the last CostBasisCap fills of a list
LastFills(side) ==
    IF Len(side) > CostBasisCap
    THEN SubSeq(side, Len(side) - CostBasisCap + 1, Len(side))
    ELSE side

\* C34: with the store working, the record holds the most recent 100 buys
\* and the most recent 100 sells ever recorded, in the order recorded
C34_HundredFillsPerSide ==
    faults = 0 =>
        /\ OfAction(costBasis, "buy") = LastFills(OfAction(recorded, "buy"))
        /\ OfAction(costBasis, "sell") = LastFills(OfAction(recorded, "sell"))

-----------------------------------------------------------------------------
(* split_message study: the bot's splitting of a long reply into chunks.   *)
(* A message is its sequence of characters; "a" stands for any character   *)
(* other than the line feed.                                               *)

MaxChars == 6
Chars == {"a", "\n"}

\* the max_length the study passes to split_message (MAX_MESSAGE_LENGTH by
\* default), scaled to the message lengths explored
StudyMaxLength == 3

Messages == UNION {[1..n -> Chars] : n \in 0..MaxChars}

\* the index of the first line feed of s, 0 when it has none
FirstFeed(s) ==
    IF \E i \in 1..Len(s) : s[i] = "\n"
    THEN CHOOSE i \in 1..Len(s) : s[i] = "\n" /\ \A j \in 1..(i - 1) : s[j] # "\n"
    ELSE 0

RECURSIVE SplitLines(_)
\* message.split('\n'): the pieces between line feeds, empty ones included
SplitLines(s) ==
    IF FirstFeed(s) = 0 THEN <<s>>
    ELSE <<SubSeq(s, 1, FirstFeed(s) - 1)>>
             \o SplitLines(SubSeq(s, FirstFeed(s) + 1, Len(s)))

\* "if len(current_chunk) + len(line) + 1 > max_length"
ChunkFull(current_chunk, line, max_length) ==
    Len(current_chunk) + Len(line) + 1 > max_length

RECURSIVE SplitLoop(_, _, _, _)
\* the for loop over lines and the final append of a non-empty chunk
SplitLoop(lines, out, current_chunk, max_length) ==
    IF lines = <<>>
    THEN IF current_chunk # <<>> THEN Append(out, current_chunk) ELSE out
    ELSE LET line == Head(lines)
             full == ChunkFull(current_chunk, line, max_length)
         IN  SplitLoop(Tail(lines),
                       IF full THEN Append(out, current_chunk) ELSE out,
                       (IF full THEN <<>> ELSE current_chunk) \o line \o <<"\n">>,
                       max_length)

split_message(msg, max_length) == SplitLoop(SplitLines(msg), <<>>, <<>>, max_length)

InitSplit ==
    /\ now = T0
    /\ message \in Messages
    /\ chunks = <<>>
    /\ IdleThreshold /\ IdleLedger /\ IdleDetect /\ IdleLimiter /\ IdleDispatch
    /\ IdleTasks /\ IdleParse /\ IdleCost /\ IdleRoster

\* one call of split_message; its result is never empty, the last line
\* always ending a chunk
SplitMessage ==
    /\ chunks = <<>>
    /\ chunks' = split_message(message, StudyMaxLength)
    /\ UNCHANGED <<now, message, thresholdVars, ledgerVars, detectVars, sent,
                   limiterVars, dispatchVars, taskVars, parseVars, costVars,
                   rosterVars>>

NextSplit == SplitMessage

SpecSplit == InitSplit /\ [][NextSplit]_vars

RECURSIVE Joined(_)
\* the chunks put end to end
Joined(cs) == IF cs = <<>> THEN <<>> ELSE Head(cs) \o Joined(Tail(cs))

\* every chunk ends where a line ends, and the chunks together are the
\* message's lines in order
WholeLines ==
    /\ \A i \in 1..Len(chunks) :
           chunks[i] = <<>> \/ chunks[i][Len(chunks[i])] = "\n"
    /\ Joined(chunks) = message \o <<"\n">>

\* C24: every chunk split_message returns is at most max_length long and is
\* made of whole lines of the message
C24_ChunksWithinLimit ==
    chunks # <<>> =>
        /\ \A i \in 1..Len(chunks) : Len(chunks[i]) <= StudyMaxLength
        /\ WholeLines

-----------------------------------------------------------------------------
(* Roster study: update_alpha_addresses, run by start_monitoring, beside   *)
(* the pipeline runs of the webhook server.  Both are coroutines of one    *)
(* event loop and interleave at their awaits.                              *)

MaxRuns == 2
MaxRefreshes == 2

RosterWallets == {"w1", "w2"}

\* what the Dune query can return: rows, one per wallet, with its category
DuneResults ==
    UNION {[S -> {"Alpha Trader", "Volume Leader"}] : S \in SUBSET RosterWallets \ {{}}}

\* the roster after the initial fetch of main(), before the servers start:
\* the fetch returned True, or it failed and the roster is the empty one of
\* __init__ with last_update None
InitRoster ==
    /\ now = T0
    /\ \/ \E rows \in DuneResults :
             /\ trader_profiles = rows
             /\ watched = DOMAIN rows
             /\ refresh = [pc |-> "idle", n |-> 0, outcome |-> "rows",
                           returned |-> TRUE, last_update |-> <<T0>>]
       \/ /\ trader_profiles = <<>>
          /\ watched = {}
          /\ refresh = [pc |-> "idle", n |-> 0, outcome |-> "error",
                        returned |-> FALSE, last_update |-> <<>>]
    /\ seen = <<>>
    /\ pattern_detector = [made |-> FALSE]
    /\ IdleThreshold /\ IdleLedger /\ IdleDetect /\ IdleLimiter /\ IdleDispatch
    /\ IdleTasks /\ IdleParse /\ IdleCost /\ IdleSplit

Day == 24 * Hour
UPDATE_INTERVAL == 7 * Day

\* self.trader_profiles assigned as soon as the response is read, before
\* the test for an empty result
ProfilesAssignedFirst(old, out) ==
    IF out.kind \in {"rows", "empty"} THEN out.rows ELSE old

\* self.trader_profiles after the query: new_profiles is built in a local
\* and assigned only after every "return False" of the fetch
ProfilesAfterFetch(old, out) ==
    IF out.kind = "rows" THEN out.rows ELSE old

\* update_alpha_addresses up to "await self.get_current_webhook()", called
\* by start_monitoring a day or more after the call before: the update is
\* not due (last_update, <<>> for None, is less than UPDATE_INTERVAL old), or the response is not 200, or has no rows, or the fetch raised,
\* and the call returns False; or the rows are read and self.trader_profiles
\* is assigned
UpdateAlphaAddressesFetch ==
    /\ refresh.pc = "idle"
    /\ refresh.n < MaxRefreshes
    /\ \E days \in {1, 7} : now' = now + days * Day
    /\ IF /\ refresh.last_update # <<>>
          /\ now' - refresh.last_update[1] < UPDATE_INTERVAL
       THEN /\ refresh' = [refresh EXCEPT !.n = @ + 1, !.outcome = "not_due",
                                          !.returned = FALSE]
            /\ UNCHANGED trader_profiles
       ELSE \E out \in {[kind |-> k, rows |-> <<>>] : k \in {"http", "empty", "error"}}
                        \cup {[kind |-> "rows", rows |-> r] : r \in DuneResults} :
               /\ trader_profiles' = ProfilesAfterFetch(trader_profiles, out)
               /\ refresh' =
                     IF out.kind = "rows"
                     THEN [pc |-> "webhook", n |-> refresh.n + 1, outcome |-> "rows",
                           returned |-> FALSE, last_update |-> refresh.last_update,
                           new_addresses |-> DOMAIN out.rows]
                     ELSE [refresh EXCEPT !.n = @ + 1, !.outcome = out.kind,
                                          !.returned = FALSE]
    /\ UNCHANGED <<watched, seen, pattern_detector, thresholdVars, ledgerVars, detectVars, sent,
                   limiterVars, dispatchVars, taskVars, parseVars, costVars,
                   splitVars>>

\* the rest of update_alpha_addresses, after the webhook calls returned
\* (each catches its own errors): self.alpha_addresses and self.last_update
\* are assigned and the call returns True; or the webhook's address list
\* came back null, set() of it raised and the call returns False
UpdateAlphaAddressesFinish ==
    /\ refresh.pc = "webhook"
    /\ \/ /\ watched' = refresh.new_addresses
          /\ refresh' = [pc |-> "idle", n |-> refresh.n, outcome |-> "rows",
                         returned |-> TRUE, last_update |-> <<now>>]
       \/ /\ UNCHANGED watched
          /\ refresh' = [pc |-> "idle", n |-> refresh.n, outcome |-> "rows",
                         returned |-> FALSE, last_update |-> refresh.last_update]
    /\ UNCHANGED <<now, trader_profiles, seen, pattern_detector, thresholdVars, ledgerVars, detectVars,
                   sent, limiterVars, dispatchVars, taskVars, parseVars, costVars,
                   splitVars>>

\* the last pipeline run has not returned yet
RunInFlight == seen # <<>> /\ seen[Len(seen)].pc = "parsed"

\* a pipeline run up to the price lookup of parse_helius_webhook: the
\* first run builds the PatternDetector with self.trader_profiles, the
\* transfer's wallet is looked up in self.alpha_addresses; an unwatched
\* wallet ends the run
RunParse ==
    /\ ~RunInFlight
    /\ Len(seen) < MaxRuns
    /\ pattern_detector' = IF pattern_detector.made THEN pattern_detector
                           ELSE [made |-> TRUE, trader_profiles |-> trader_profiles]
    /\ \E wallet \in RosterWallets :
          seen' = Append(seen,
                     [pc |-> IF wallet \in watched THEN "parsed" ELSE "skipped",
                      wallet |-> wallet, addresses |-> watched,
                      profiles |-> <<>>, trader_type |-> "",
                      refreshes |-> refresh.n, refreshing |-> (refresh.pc # "idle")])
    /\ UNCHANGED <<now, trader_profiles, watched, refresh, thresholdVars, ledgerVars,
                   detectVars, sent, limiterVars, dispatchVars, taskVars, parseVars,
                   costVars, splitVars>>

\* the run's _process_single_transaction: the wallet's category is read
\* from self.trader_profiles, and add_transaction reads the category it
\* stores from the detector's trader_profiles
RunProcess ==
    /\ RunInFlight
    /\ seen' = [seen EXCEPT ![Len(seen)] =
                   [@ EXCEPT !.pc = "done", !.profiles = trader_profiles,
                             !.trader_type = CategoryOf(pattern_detector.trader_profiles,
                                                        seen[Len(seen)].wallet),
                             !.refreshing = (@ \/ refresh.pc # "idle"
                                               \/ refresh.n # seen[Len(seen)].refreshes)]]
    /\ UNCHANGED <<now, trader_profiles, watched, refresh, pattern_detector,
                   thresholdVars, ledgerVars,
                   detectVars, sent, limiterVars, dispatchVars, taskVars, parseVars,
                   costVars, splitVars>>

NextRoster ==
    UpdateAlphaAddressesFetch \/ UpdateAlphaAddressesFinish \/ RunParse \/ RunProcess

SpecRoster == InitRoster /\ [][NextRoster]_vars

\* start_monitoring alone, with no delivery arriving
NextMonitor == UpdateAlphaAddressesFetch \/ UpdateAlphaAddressesFinish

SpecMonitor == InitRoster /\ [][NextMonitor]_vars

\* C22: a pipeline run never observes a partially-updated roster: the
\* address set and the category map it read belong to the same refresh
C22_RunSeesOneRoster ==
    \A i \in 1..Len(seen) :
        seen[i].pc = "done" => DOMAIN seen[i].profiles = seen[i].addresses

\* C40: a refresh attempt that ends without rows (not due, response not
\* 200, empty result, exception in the fetch) returns False and leaves
\* alpha_addresses, trader_profiles and last_update as they were
C40_FailedRefreshKeepsRoster ==
    [][(refresh'.n = refresh.n + 1 /\ refresh'.outcome # "rows") =>
          /\ refresh'.pc = "idle" /\ ~ refresh'.returned
          /\ trader_profiles' = trader_profiles
          /\ watched' = watched
          /\ refresh'.last_update = refresh.last_update]_vars

\* the first attempt replaced the roster and the second, not due or failed
\* in its fetch, returned False: the roster is that of the first
C40_Witness ==
    /\ refresh.n = 2 /\ refresh.pc = "idle"
    /\ refresh.outcome \in {"not_due", "http", "empty", "error"}
    /\ ~ refresh.returned
    /\ refresh.last_update # <<>> /\ refresh.last_update[1] > T0
    /\ watched = DOMAIN trader_profiles

\* C36: in a pipeline run that no refresh overlaps, the category that
\* add_transaction stores for a wallet is the wallet's category in the
\* tracker's current roster
C36_StoredCategoryIsCurrent ==
    \A i \in 1..Len(seen) :
        (seen[i].pc = "done" /\ ~ seen[i].refreshing) =>
            seen[i].trader_type = CategoryOf(seen[i].profiles, seen[i].wallet)

=============================================================================
